---- MODULE Spec2Model ----
(***************************************************************************)
(* A model of OneNote_Remocon.py: window fingerprint scoring and           *)
(* reacquisition, the viewport centering loop, and the favorites tree with *)
(* its named buffers.                                                      *)
(*                                                                         *)
(* Strings of the program are modelled as follows.  A window title is a    *)
(* sequence of tokens; "in" (substring) is contiguous-subsequence, and     *)
(* str.lower() maps the cased token "OneNote" to "onenote".  The Korean    *)
(* keyword of the source is written "wonnote" here, and the default buffer *)
(* name is written "DefaultBuffer".  Python None / "" / 0 are the falsy    *)
(* values "" (strings), <<>> (titles) and 0 (handles, pids).               *)
(***************************************************************************)
EXTENDS Integers, Sequences, FiniteSets, TLC

VARIABLES
    \* ---- the desktop (environment) and the stored fingerprint
    windows,        \* handle -> [state, title, class_name, pid]
    procImage,      \* pid -> executable path ("" when the OS query fails)
    sig,            \* the fingerprint handed to the scorer / reacquisition
    \* ---- reacquire_window_by_signature: position and locals
    pwa_ready,      \* the automation binding was imported
    rpc,            \* "start" | "scan" | "resolve" | "done" | "off"
    candidates,     \* [taken, list]: the catalog snapshot once it is taken
    best,           \* handle of the best candidate so far (0: none)
    best_score,
    nscored,        \* number of catalog entries scored in this call
    result,         \* the returned window's handle (0: None)
    \* ---- _center_element_in_view: position, locals and the calls it issued
    cpc,            \* "idle" | "settle" | "measure" | "loop" | "done"
    scroll_item,    \* element.iface_scroll_item: "ok" | "absent" | "raises"
    iface_scroll,   \* container.iface_scroll is not None
    offset,         \* item centre - container centre, in half pixels
    offset0,        \* [seen, value]: the offset measured before the loop
    round,          \* correction rounds completed
    nScrollIntoView,\* ScrollIntoView calls issued on the node in this invocation
    nPattern,       \* iface.Scroll increments applied to the container
    nWheel,         \* _safe_wheel calls issued on the container
    lastRound,      \* [direction, repeats, applied, wheel, moves]: the last round's scrolls
    prevConverged,  \* the previous invocation returned with |offset| <= 10
    elapsed,        \* _wait_rect_settle: time since "start", in poll intervals
    polls,          \* _wait_rect_settle: passes of its while loop so far
    \* ---- the main window: settings, favorites buffers and the favorites tree
    fpc,                    \* "boot" | "loaded" | "ready" ("off": not running)
    file,                   \* the settings file on disk
    settings,               \* self.settings
    active_buffer_name,     \* self.active_buffer_name ("" is None)
    buffer_list,            \* buffer_list_widget: [items, row] (row 0: none)
    fav_tree,               \* the top-level items of fav_tree
    clipboard_data,         \* self.clipboard_data
    buffer_clipboard_data,  \* self.buffer_clipboard_data
    last,                   \* [op, notice, detail]: the last handler run, the message
                            \* box it showed, and the items it moved or made
    \* ---- the connection: the window held, the worker threads and their signals
    desktop,        \* handles of the visible top-level windows (environment)
    onenote_window, \* self.onenote_window (0: None)
    tree_control,   \* self.tree_control: the handle of the window the cached
                    \* container was located in (0: None)
    refresh_button, \* refresh_button.isEnabled()
    center_button,  \* center_button.isEnabled(), and with it the search controls
    log,            \* [held, attempt, used]: how onenote_window was obtained, the
                    \* last _perform_connection, and the containers the last
                    \* centering or selection handler worked on
    timers,         \* QTimer.singleShot callbacks not yet run, in order
    scanner,        \* self._scanner_worker: "none" | "running" | "emitted" | "finished"
    list_ready,     \* queued "done" signals of OneNoteWindowScanner
    reconnect_pc,   \* ReconnectWorker: "none" | "start" | "lookup" | "save_read"
                    \*   | "save_write" | "emit" | "queued"
    r_local,        \* the worker's locals: [sig, win, settings]
    r_payload,      \* the payload of "finished": [ok, status, sig]
    dialog,         \* OtherWindowSelectionDialog: "closed" | "scanning" | "listed"
    list_workers,   \* WindowListWorker threads inside run()
    worker_wrote,   \* a worker thread has written the settings file
    cleared,        \* the stored fingerprint was cleared for a stale handle, and
                    \* no connection was made since
    runs,           \* times the program was started
    \* ---- is_strict_onenote_window: its arguments and what it returned
    cand,           \* w: a catalog entry [title, class_name, pid]
    my_pid,         \* the process id to leave out
    strict,         \* [called, value]: whether it was called, and what it returned
    \* ---- the section pane (environment) and the calls made on it
    pane,           \* the tree or list control: its items, its selection, and
                    \* which of its calls are missing or raise
    picked          \* the last call on the pane: what it did and what it returned

reacqVars == <<windows, procImage, sig, pwa_ready, rpc, candidates, best,
               best_score, nscored, result>>

centerVars == <<cpc, scroll_item, iface_scroll, offset, offset0, round,
                nScrollIntoView, nPattern, nWheel, lastRound, prevConverged,
                elapsed, polls>>

favVars == <<fpc, file, settings, active_buffer_name, buffer_list, fav_tree,
             clipboard_data, buffer_clipboard_data, last>>

connVars == <<desktop, onenote_window, tree_control, refresh_button, center_button, log,
              timers, scanner,
              list_ready, reconnect_pc, r_local, r_payload, dialog, list_workers,
              worker_wrote, cleared, runs>>

classVars == <<cand, my_pid, strict>>

selVars == <<pane, picked>>

vars == <<reacqVars, centerVars, favVars, connVars, classVars, selVars>>

-----------------------------------------------------------------------------
(* Program constants *)

ONENOTE_CLASS_NAME == "ApplicationFrameWindow"
AcceptThreshold == 30

(* Bounds of the model *)
MaxTitleLen == 2
NumWindows == 2

\* the value of "candidates" before the catalog is enumerated
NotTaken == [taken |-> FALSE, list |-> << >>]

-----------------------------------------------------------------------------
(* Strings *)

TitleTokens == {"OneNote", "wonnote"}

RECURSIVE TitlesUpTo(_)
TitlesUpTo(n) ==
    IF n = 0 THEN {<< >>}
    ELSE LET shorter == TitlesUpTo(n - 1)
         IN  shorter \cup {Append(t, k) : t \in {s \in shorter : Len(s) = n - 1},
                                          k \in TitleTokens}

Titles == TitlesUpTo(MaxTitleLen)

\* a "title" of the stored fingerprint that is no string (settings.json is read
\* as it is found): .lower() raises on it
NonStringTitle == <<"#number">>

LowerTok(k) ==
    CASE k = "OneNote" -> "onenote"
      [] k = "Notes"   -> "notes"
      [] OTHER         -> k
Lower(t) == [i \in 1..Len(t) |-> LowerTok(t[i])]

\* Python: kw in title, for a keyword that is one token
HasWord(kw, t) == \E i \in 1..Len(t) : t[i] = kw

\* Python: p in t (substring)
IsSubstr(p, t) ==
    \E i \in 0..(Len(t) - Len(p)) : \A j \in 1..Len(p) : t[i + j] = p[j]

\* os.path.basename(path).lower()
BaseNameLower(path) ==
    CASE path = "C:/Office/ONENOTE.EXE" -> "onenote.exe"
      [] path = "C:/Apps/app.exe"       -> "app.exe"
      [] path = "C:/Apps/onenoteim.exe" -> "onenoteim.exe"
      [] OTHER                          -> ""

ExePaths == {"", "C:/Office/ONENOTE.EXE", "C:/Apps/app.exe"}
ExeNames == {"", "onenote.exe", "app.exe"}

\* Python: "onenote.exe" in exe_name
HasOneNoteExe(exe_name) == exe_name = "onenote.exe"

Pids == {1, 2}
ProcTables ==
    { [p \in Pids |-> IF p = 1 THEN "C:/Office/ONENOTE.EXE" ELSE "C:/Apps/app.exe"],
      [p \in Pids |-> IF p = 1 THEN "" ELSE "C:/Office/ONENOTE.EXE"],
      [p \in Pids |-> IF p = 1 THEN "C:/Apps/app.exe" ELSE ""] }

ClassNames == {ONENOTE_CLASS_NAME, "OMain"}
ScoreClassNames == ClassNames \cup {"Chrome_WidgetWin_1"}

-----------------------------------------------------------------------------
(* get_process_image_path: None for a falsy pid or a failed OS query *)
GetProcessImagePath(pid) ==
    IF pid = 0 THEN "" ELSE procImage[pid]

(* The weighted conditions of _score_candidate_dict, by name *)
CandTitle(c) == Lower(c.title)
CandExeName(c) == BaseNameLower(GetProcessImagePath(c.pid))
PrevTitle(s) == Lower(s.title)

CondHandle(c, s)   == s.handle # 0 /\ c.handle = s.handle
CondExeName(c, s)  == s.exe_name # "" /\ CandExeName(c) = s.exe_name
CondFamily(c, s)   == HasOneNoteExe(CandExeName(c))
CondKeyword(c, s)  == HasWord("onenote", CandTitle(c)) \/ HasWord("wonnote", CandTitle(c))
CondClass(c, s)    == s.class_name # "" /\ c.class_name = s.class_name
CondPid(c, s)      == s.pid # 0 /\ c.pid = s.pid
CondPrevSub(c, s)  == PrevTitle(s) # << >> /\ IsSubstr(PrevTitle(s), CandTitle(c))
CondSharedEn(c, s) == HasWord("onenote", PrevTitle(s)) /\ HasWord("onenote", CandTitle(c))
CondSharedKr(c, s) == HasWord("wonnote", PrevTitle(s)) /\ HasWord("wonnote", CandTitle(c))
CondModern(c, s)   == c.class_name = ONENOTE_CLASS_NAME

W(cond, weight) == IF cond THEN weight ELSE 0

ScoreBuggyAssign(c, s) ==
    \* a class match written "score = 10" instead of "score += 10"
    LET upto == W(CondHandle(c, s), 100) + W(CondExeName(c, s), 50)
                + W(CondFamily(c, s), 50) + W(CondKeyword(c, s), 25)
        afterClass == IF CondClass(c, s) THEN 10 ELSE upto
    IN  afterClass + W(CondPid(c, s), 8)
        + (IF PrevTitle(s) # << >>
           THEN IF IsSubstr(PrevTitle(s), CandTitle(c)) THEN 6
                ELSE W(CondSharedEn(c, s), 4) + W(CondSharedKr(c, s), 4)
           ELSE 0)
        + W(CondModern(c, s), 5)

\* line 663: (sig.get("title") or "").lower() raises for a title that is no
\* string, and lines 675-676 answer -1
ScoreFaults(c, s) == s.title = NonStringTitle

ScoreNoPathFaults(c, s) ==
    \* an executable path that cannot be had taken for a fault of the scoring
    IF ScoreFaults(c, s) \/ GetProcessImagePath(c.pid) = "" THEN -1
    ELSE W(CondHandle(c, s), 100)
         + W(CondExeName(c, s), 50)
         + W(CondFamily(c, s), 50)
         + W(CondKeyword(c, s), 25)
         + W(CondClass(c, s), 10)
         + W(CondPid(c, s), 8)
         + (IF PrevTitle(s) # << >>
            THEN IF IsSubstr(PrevTitle(s), CandTitle(c)) THEN 6
                 ELSE W(CondSharedEn(c, s), 4) + W(CondSharedKr(c, s), 4)
            ELSE 0)
         + W(CondModern(c, s), 5)

ScoreSharedAlways(c, s) ==
    \* the shared-keyword credits given next to the substring credit, not instead
    IF ScoreFaults(c, s) THEN -1
    ELSE W(CondHandle(c, s), 100)
         + W(CondExeName(c, s), 50)
         + W(CondFamily(c, s), 50)
         + W(CondKeyword(c, s), 25)
         + W(CondClass(c, s), 10)
         + W(CondPid(c, s), 8)
         + (IF PrevTitle(s) # << >>
            THEN W(IsSubstr(PrevTitle(s), CandTitle(c)), 6)
                 + W(CondSharedEn(c, s), 4) + W(CondSharedKr(c, s), 4)
            ELSE 0)
         + W(CondModern(c, s), 5)

ScoreComparesExePath(c, s) ==
    \* the executable's whole path compared with the fingerprint's basename
    IF ScoreFaults(c, s) THEN -1
    ELSE W(CondHandle(c, s), 100)
         + W(s.exe_name # "" /\ GetProcessImagePath(c.pid) = s.exe_name, 50)
         + W(CondFamily(c, s), 50)
         + W(CondKeyword(c, s), 25)
         + W(CondClass(c, s), 10)
         + W(CondPid(c, s), 8)
         + (IF PrevTitle(s) # << >>
            THEN IF IsSubstr(PrevTitle(s), CandTitle(c)) THEN 6
                 ELSE W(CondSharedEn(c, s), 4) + W(CondSharedKr(c, s), 4)
            ELSE 0)
         + W(CondModern(c, s), 5)

ScoreCandidateDict(c, s) ==
    IF ScoreFaults(c, s) THEN -1
    ELSE W(CondHandle(c, s), 100)
         + W(CondExeName(c, s), 50)
         + W(CondFamily(c, s), 50)
         + W(CondKeyword(c, s), 25)
         + W(CondClass(c, s), 10)
         + W(CondPid(c, s), 8)
         + (IF PrevTitle(s) # << >>
            THEN IF IsSubstr(PrevTitle(s), CandTitle(c)) THEN 6
                 ELSE W(CondSharedEn(c, s), 4) + W(CondSharedKr(c, s), 4)
            ELSE 0)
         + W(CondModern(c, s), 5)

-----------------------------------------------------------------------------
(* Scoring one catalog entry while the window and the fingerprint drift *)

\* the catalog entry enum_windows_fast builds for window h
Cand(h) == [handle |-> h, title |-> windows[h].title,
            class_name |-> windows[h].class_name, pid |-> windows[h].pid]

ScoreHandle == 1
ScoreSigs == [handle : {0, 1}, pid : {0, 1}, class_name : {"", ONENOTE_CLASS_NAME, "OMain"},
              title : Titles \cup {NonStringTitle}, exe_name : ExeNames]

ReacqParked ==
    /\ pwa_ready = TRUE /\ rpc = "off" /\ candidates = NotTaken
    /\ best = 0 /\ best_score = -1 /\ nscored = 0 /\ result = 0

NoMeasure == [seen |-> FALSE, value |-> 0]
NoRound == [direction |-> "", repeats |-> 0, applied |-> 0, wheel |-> 0, moves |-> {}]

CenterParked ==
    /\ cpc = "off" /\ scroll_item = "ok" /\ iface_scroll = TRUE
    /\ offset = 0 /\ offset0 = NoMeasure /\ round = 0
    /\ nScrollIntoView = 0 /\ nPattern = 0 /\ nWheel = 0
    /\ lastRound = NoRound /\ prevConverged = FALSE
    /\ elapsed = 0 /\ polls = 0

NoFile == [missing |-> TRUE]
NoClip == [empty |-> TRUE]
NoList == [items |-> << >>, row |-> 0]
NoDetail == [source_type |-> "", kind |-> "", target_type |-> "", source_id |-> 0,
             target_id |-> 0]
NoOp == [op |-> "", notice |-> "", detail |-> NoDetail]

\* JSON null, as the value of "connection_signature"
NoSig == [none |-> TRUE]
NoPayload == [ok |-> FALSE, status |-> "", sig |-> NoSig]
NoLocal == [sig |-> NoSig, win |-> 0, settings |-> NoFile]
NoAttempt == [made |-> FALSE]
NoUse == [op |-> ""]
NoLog == [held |-> "none", attempt |-> NoAttempt, used |-> NoUse]

NoCand == [title |-> << >>, class_name |-> "", pid |-> 0]

NotCalled == [called |-> FALSE, value |-> FALSE]

NoPane == [found |-> FALSE]
NotPicked == [op |-> ""]

SelParked == pane = NoPane /\ picked = NotPicked

ClassOff == cand = NoCand /\ my_pid = 0 /\ strict = NotCalled

ClassParked == ClassOff /\ SelParked

ConnOff ==
    /\ desktop = {} /\ onenote_window = 0 /\ tree_control = 0
    /\ refresh_button = TRUE /\ center_button = FALSE /\ log = NoLog
    /\ timers = << >>
    /\ scanner = "none" /\ list_ready = 0
    /\ reconnect_pc = "none" /\ r_local = NoLocal /\ r_payload = NoPayload
    /\ dialog = "closed" /\ list_workers = 0
    /\ worker_wrote = FALSE /\ cleared = FALSE /\ runs = 0

ConnParked == ClassParked /\ ConnOff

FavOff ==
    /\ fpc = "off" /\ file = NoFile /\ settings = NoFile
    /\ active_buffer_name = "" /\ buffer_list = NoList /\ fav_tree = << >>
    /\ clipboard_data = NoClip /\ buffer_clipboard_data = NoClip
    /\ last = NoOp

FavParked == ConnParked /\ FavOff

InitScore ==
    /\ windows \in [{ScoreHandle} -> [state : {"visible"}, title : Titles,
                                      class_name : ScoreClassNames, pid : Pids]]
    /\ procImage \in ProcTables
    /\ sig \in ScoreSigs
    /\ ReacqParked
    /\ CenterParked
    /\ FavParked

ProcUnchanged ==
    UNCHANGED <<pwa_ready, rpc, candidates, best, best_score, nscored, result,
                centerVars, favVars, connVars, classVars, selVars>>

\* the window's title changes
WinRetitle ==
    /\ \E t \in Titles \ {windows[ScoreHandle].title} :
          windows' = [windows EXCEPT ![ScoreHandle].title = t]
    /\ UNCHANGED <<procImage, sig>> /\ ProcUnchanged

\* the window is re-created under another class or by another process
WinReclass ==
    /\ \E k \in ScoreClassNames \ {windows[ScoreHandle].class_name} :
          windows' = [windows EXCEPT ![ScoreHandle].class_name = k]
    /\ UNCHANGED <<procImage, sig>> /\ ProcUnchanged

WinRepid ==
    /\ \E p \in Pids \ {windows[ScoreHandle].pid} :
          windows' = [windows EXCEPT ![ScoreHandle].pid = p]
    /\ UNCHANGED <<procImage, sig>> /\ ProcUnchanged

\* the process table changes (a process exits, another starts)
ProcChange ==
    /\ \E t \in ProcTables \ {procImage} : procImage' = t
    /\ UNCHANGED <<windows, sig>> /\ ProcUnchanged

\* the fingerprint is rebuilt and stores another handle (or none)
SigRehandle ==
    /\ \E h \in {0, 1} \ {sig.handle} : sig' = [sig EXCEPT !.handle = h]
    /\ UNCHANGED <<windows, procImage>> /\ ProcUnchanged

NextScore == WinRetitle \/ WinReclass \/ WinRepid \/ ProcChange \/ SigRehandle

SpecScore == InitScore /\ [][NextScore]_vars

CondNames == {"handle", "exe_name", "family", "keyword", "class", "pid",
              "prev_sub", "shared_en", "shared_kr", "modern"}

Cond(n, c, s) ==
    CASE n = "handle"    -> CondHandle(c, s)
      [] n = "exe_name"  -> CondExeName(c, s)
      [] n = "family"    -> CondFamily(c, s)
      [] n = "keyword"   -> CondKeyword(c, s)
      [] n = "class"     -> CondClass(c, s)
      [] n = "pid"       -> CondPid(c, s)
      [] n = "prev_sub"  -> CondPrevSub(c, s)
      [] n = "shared_en" -> CondSharedEn(c, s)
      [] n = "shared_kr" -> CondSharedKr(c, s)
      [] n = "modern"    -> CondModern(c, s)

TrueConds == {n \in CondNames : Cond(n, Cand(ScoreHandle), sig)}
ScoreNow == ScoreCandidateDict(Cand(ScoreHandle), sig)

\* a step that makes exactly one more condition true and leaves the others as they were
GainsOne(before, after) == before \subseteq after /\ Cardinality(after \ before) = 1

(* C3 (as stated): making one more weighted condition true never lowers the score. *)
C3_MonotonicAll ==
    [][GainsOne(TrueConds, TrueConds') => ScoreNow' >= ScoreNow]_vars

(* C3 (amended): every condition but the previous-title-substring one is monotonic;
   making the previous title a substring replaces the shared-keyword credit by +6,
   which lowers the score (by exactly 2) only when both keyword variants were shared. *)
C3_MonotonicExceptPrevSub ==
    [][GainsOne(TrueConds, TrueConds') =>
         IF "prev_sub" \in TrueConds' \ TrueConds
            /\ {"shared_en", "shared_kr"} \subseteq TrueConds
         THEN ScoreNow' = ScoreNow - 2
         ELSE ScoreNow' >= ScoreNow]_vars

\* a state in which the previous title is not a substring and both variants are shared
C3_Witness ==
    /\ rpc = "off"
    /\ {"shared_en", "shared_kr"} \subseteq TrueConds
    /\ "prev_sub" \notin TrueConds
    /\ ScoreNow = 25 + 8

-----------------------------------------------------------------------------
(* reacquire_window_by_signature *)

Handles == 1..NumWindows
WinStates == {"visible", "hidden", "gone"}
ReacqTitles == {<< >>, <<"OneNote">>}
ReacqSigs == [handle : {0, 1}, pid : {0, 1}, class_name : {"", ONENOTE_CLASS_NAME},
              title : ReacqTitles \cup {NonStringTitle}, exe_name : ExeNames]

\* Desktop(backend="uia").window(handle=h).is_visible(): raises for a window that
\* is gone (caught by the caller), False for a hidden one
LookupVisible(h) == h \in DOMAIN windows /\ windows[h].state = "visible"

FastPathNever(h) == FALSE

\* lines 683-690: the fast path returns the window of the stored handle
FastPathHit(h) == h # 0 /\ LookupVisible(h)

\* enum_windows_fast(None): the visible top-level windows that have a title
Listed(h) == windows[h].state = "visible" /\ windows[h].title # << >>

\* every order in which EnumWindows may report the handles of S
RECURSIVE Orders(_)
Orders(S) ==
    IF S = {} THEN {<< >>}
    ELSE UNION {{<<x>> \o o : o \in Orders(S \ {x})} : x \in S}

EnumWindowsFast(order) == [i \in 1..Len(order) |-> Cand(order[i])]

\* lines 693-697: keep the first entry that attains the maximum
RECURSIVE ScanLoop(_, _, _, _)
ScanLoopLastWins(cands, i, b, bs) ==
    IF i > Len(cands) THEN [best |-> b, best_score |-> bs]
    ELSE LET s == ScoreCandidateDict(cands[i], sig)
         IN  IF s >= bs THEN ScanLoop(cands, i + 1, cands[i].handle, s)
             ELSE ScanLoop(cands, i + 1, b, bs)

ScanLoop(cands, i, b, bs) ==
    IF i > Len(cands) THEN [best |-> b, best_score |-> bs]
    ELSE LET s == ScoreCandidateDict(cands[i], sig)
         IN  IF s > bs THEN ScanLoop(cands, i + 1, cands[i].handle, s)
             ELSE ScanLoop(cands, i + 1, b, bs)

AcceptsAny(b, bs) == b # 0

\* line 699
Accepts(b, bs) == b # 0 /\ bs >= AcceptThreshold

InitReacquire ==
    /\ windows \in [Handles -> [state : WinStates, title : ReacqTitles,
                                class_name : ClassNames, pid : Pids]]
    /\ \A h \in Handles : windows[h].pid = IF h \in Pids THEN h ELSE 1
    /\ procImage \in ProcTables
    /\ sig \in ReacqSigs
    /\ pwa_ready \in BOOLEAN
    /\ rpc = "start" /\ candidates = NotTaken
    /\ best = 0 /\ best_score = -1 /\ nscored = 0 /\ result = 0
    /\ CenterParked
    /\ FavParked

ReacqFastPath ==
    /\ rpc = "start"
    /\ IF ~pwa_ready THEN rpc' = "done" /\ result' = 0
       ELSE IF FastPathHit(sig.handle) THEN rpc' = "done" /\ result' = sig.handle
       ELSE rpc' = "scan" /\ result' = result
    /\ UNCHANGED <<windows, procImage, sig, pwa_ready, candidates, best, best_score, nscored,
                   centerVars, favVars, connVars, classVars, selVars>>

ReacqScan ==
    /\ rpc = "scan"
    /\ \E order \in Orders({h \in Handles : Listed(h)}) :
          LET cands == EnumWindowsFast(order)
              r == ScanLoop(cands, 1, 0, -1)
          IN  /\ candidates' = [taken |-> TRUE, list |-> cands]
              /\ best' = r.best
              /\ best_score' = r.best_score
              /\ nscored' = Len(cands)
    /\ rpc' = "resolve"
    /\ UNCHANGED <<windows, procImage, sig, pwa_ready, result, centerVars, favVars, connVars, classVars, selVars>>

ResolveFallsBack ==
    /\ rpc = "resolve"
    /\ result' = IF Accepts(best, best_score) /\ LookupVisible(best) THEN best
                 ELSE IF \E i \in 1..Len(candidates.list) :
                            /\ ScoreCandidateDict(candidates.list[i], sig) >= AcceptThreshold
                            /\ LookupVisible(candidates.list[i].handle)
                 THEN candidates.list[CHOOSE i \in 1..Len(candidates.list) :
                            /\ ScoreCandidateDict(candidates.list[i], sig) >= AcceptThreshold
                            /\ LookupVisible(candidates.list[i].handle)].handle
                 ELSE 0
    /\ rpc' = "done"
    /\ UNCHANGED <<windows, procImage, sig, pwa_ready, candidates, best, best_score, nscored,
                   centerVars, favVars, connVars, classVars, selVars>>

ReacqResolve ==
    /\ rpc = "resolve"
    /\ result' = IF Accepts(best, best_score) /\ LookupVisible(best) THEN best ELSE 0
    /\ rpc' = "done"
    /\ UNCHANGED <<windows, procImage, sig, pwa_ready, candidates, best, best_score, nscored,
                   centerVars, favVars, connVars, classVars, selVars>>

\* between the steps of a call a window may be shown, hidden or closed
EnvWindow ==
    /\ rpc \in {"scan", "resolve"}
    /\ \E h \in Handles : \E st \in WinStates \ {windows[h].state} :
          windows' = [windows EXCEPT ![h].state = st]
    /\ UNCHANGED <<procImage, sig>> /\ ProcUnchanged

NextReacquire == ReacqFastPath \/ ReacqScan \/ ReacqResolve \/ EnvWindow

SpecReacquire == InitReacquire /\ [][NextReacquire]_vars

(* C1: a fingerprint whose handle looks up to a visible window is answered with
   that window by the first step, and no catalog is enumerated or scored. *)
C1_FastPath ==
    [][(rpc = "start" /\ pwa_ready /\ sig.handle # 0 /\ LookupVisible(sig.handle))
         => (rpc' = "done" /\ result' = sig.handle
             /\ candidates' = NotTaken /\ nscored' = 0)]_vars

C1_Witness ==
    rpc = "done" /\ pwa_ready /\ result # 0 /\ result = sig.handle /\ candidates = NotTaken

\* the best score over a set of catalog entries (-1 for none, as best_score starts)
MaxScore(entries) ==
    IF entries = {} THEN -1
    ELSE CHOOSE m \in {ScoreCandidateDict(c, sig) : c \in entries} :
            \A c \in entries : ScoreCandidateDict(c, sig) <= m

\* the catalog of the call: its snapshot, or what a snapshot would hold when the
\* call returned without taking one (the desktop does not change after the return)
CatalogOfCall ==
    IF candidates.taken THEN {candidates.list[i] : i \in 1..Len(candidates.list)}
    ELSE {Cand(h) : h \in {k \in Handles : Listed(k)}}

(* C2 (as stated): reacquire returns none whenever the best score in C is below 30. *)
C2_NoneBelowThreshold ==
    (rpc = "done" /\ MaxScore(CatalogOfCall) < AcceptThreshold) => result = 0

(* C2 (amended): when the fast path did not return and the catalog was scanned,
   reacquire returns none whenever the best score in the snapshot is below 30. *)
C2_NoneBelowThresholdAfterScan ==
    (rpc = "done" /\ candidates.taken
       /\ MaxScore(CatalogOfCall) < AcceptThreshold) => result = 0

C2_Witness ==
    /\ rpc = "done" /\ candidates.taken /\ Len(candidates.list) = NumWindows
    /\ MaxScore(CatalogOfCall) = 25 /\ result = 0

-----------------------------------------------------------------------------
(* _center_element_in_view.  Offsets are kept in half pixels, because a centre
   is (top + bottom) / 2: |offset| <= 10 is |2 offset| <= 20, and
   int(abs(offset) / 150) is the integer quotient of |2 offset| by 300. *)

Tolerance == 10
StepDivisor == 150
MaxStep == 5
MaxRounds == 3

\* the offsets (in half pixels) a measurement may yield
Offsets == {-1600, -300, -21, -20, 0, 20, 21, 120, 299, 300, 750, 1501}

Abs(x) == IF x < 0 THEN -x ELSE x

WithinStrict(o) == Abs(o) < 2 * Tolerance

\* lines 544 and 551: abs(offset) <= 10
Within(o) == Abs(o) <= 2 * Tolerance

Min(a, b) == IF a < b THEN a ELSE b
Max(a, b) == IF a > b THEN a ELSE b

\* line 323: timeout=0.3 and interval=0.03, in milliseconds
SettleTimeout == 300
SettleInterval == 30
\* the number of whole intervals that make up the timeout
SettlePolls == SettleTimeout \div SettleInterval
\* what a pass of the settle loop can take, in intervals: time.sleep(interval)
\* and the rectangle query together last one interval or longer
PollDurations == {1, 3}

TimedOutNever(t) == FALSE

\* line 325: "while time.perf_counter() - start < timeout" is over
TimedOut(t) == ~(t < SettlePolls)

StepForRoundedUp(dy) ==
    Max(1, Min(MaxStep, (Abs(dy) + 2 * StepDivisor - 1) \div (2 * StepDivisor)))

\* lines 547-548
step_for(dy) == Max(1, Min(MaxStep, Abs(dy) \div (2 * StepDivisor)))

(* _safe_wheel, lines 366-409.  What the environment does to each call is an
   outcome o: wheel_scroll and wheel_mouse_input are "absent" (hasattr is
   false), "raises" or "ok"; rectangle, mouse.scroll, mouse.wheel, set_focus and
   send_keys are "raises" or "ok".  The answer is the set of movements asked of
   the container, each [via, direction, amount] with via "wheel" or "keys": a
   positive wheel distance scrolls up, a negative one down.  A call that raises
   may have moved the container before it raised. *)
WheelOutcomes ==
    { o \in [wheel_scroll : {"absent", "raises", "ok"},
              wheel_mouse_input : {"absent", "raises", "ok"},
              rectangle : {"raises", "ok"}, mouse_scroll : {"raises", "ok"},
              mouse_wheel : {"raises", "ok"}, set_focus : {"raises", "ok"}] :
        \* what a call that is never made would have done is left at "ok"
        /\ (o.wheel_scroll = "ok" => o.wheel_mouse_input = "ok")
        /\ (o.wheel_mouse_input = "ok" => o.rectangle = "ok")
        /\ (o.rectangle = "raises" => o.mouse_scroll = "ok")
        /\ (o.mouse_scroll = "ok" => o.mouse_wheel = "ok")
        /\ (o.mouse_wheel = "ok" /\ o.rectangle = "ok" => o.set_focus = "ok") }

WheelMove(dist) ==
    [via |-> "wheel", direction |-> IF dist > 0 THEN "up" ELSE "down", amount |-> Abs(dist)]

SafeWheelKeysSwapped(steps, o) ==
    IF steps = 0 THEN {}
    ELSE IF o.wheel_scroll = "ok" THEN {WheelMove(steps)}
    ELSE LET m1 == IF o.wheel_scroll = "raises" THEN {WheelMove(steps)} ELSE {}
         IN  IF o.wheel_mouse_input = "ok" THEN {WheelMove(steps)}
             ELSE LET m2 == m1 \cup (IF o.wheel_mouse_input = "raises"
                                      THEN {WheelMove(steps)} ELSE {})
                      keys == IF o.set_focus = "raises" THEN {}
                              ELSE {IF steps > 0
                                    THEN [via |-> "keys", direction |-> "down",
                                          amount |-> steps]
                                    ELSE [via |-> "keys", direction |-> "up",
                                          amount |-> Abs(steps)]}
                  IN  IF o.rectangle = "raises" THEN m2 \cup keys
                      ELSE IF o.mouse_scroll = "ok" \/ o.mouse_wheel = "ok"
                      THEN m2 \cup {WheelMove(steps)}
                      ELSE m2 \cup {WheelMove(steps)} \cup keys

_safe_wheel(steps, o) ==
    IF steps = 0 THEN {}                                      \* lines 367-368
    ELSE IF o.wheel_scroll = "ok" THEN {WheelMove(steps)}     \* lines 372-377
    ELSE LET m1 == IF o.wheel_scroll = "raises" THEN {WheelMove(steps)} ELSE {}
         IN  IF o.wheel_mouse_input = "ok" THEN {WheelMove(steps)}   \* 379-384
             ELSE LET m2 == m1 \cup (IF o.wheel_mouse_input = "raises"
                                      THEN {WheelMove(steps)} ELSE {})
                      \* lines 401-409: {UP n} for steps > 0, {DOWN |n|} otherwise
                      keys == IF o.set_focus = "raises" THEN {}
                              ELSE {IF steps > 0
                                    THEN [via |-> "keys", direction |-> "up",
                                          amount |-> steps]
                                    ELSE [via |-> "keys", direction |-> "down",
                                          amount |-> Abs(steps)]}
                  IN  IF o.rectangle = "raises" THEN m2 \cup keys    \* 386-399
                      ELSE IF o.mouse_scroll = "ok" \/ o.mouse_wheel = "ok"
                      THEN m2 \cup {WheelMove(steps)}
                      ELSE m2 \cup {WheelMove(steps)} \cup keys

DesktopParked ==
    /\ windows = [h \in {ScoreHandle} |->
                    [state |-> "visible", title |-> << >>,
                     class_name |-> ONENOTE_CLASS_NAME, pid |-> 1]]
    /\ procImage = [p \in Pids |-> ""]
    /\ sig = [handle |-> 0, pid |-> 0, class_name |-> "", title |-> << >>, exe_name |-> ""]
    /\ rpc = "off" /\ candidates = NotTaken
    /\ best = 0 /\ best_score = -1 /\ nscored = 0 /\ result = 0

InitCenter ==
    /\ DesktopParked
    /\ pwa_ready \in BOOLEAN
    /\ FavParked
    /\ cpc = "idle"
    /\ scroll_item \in {"ok", "absent", "raises"}
    /\ iface_scroll \in BOOLEAN
    /\ offset = 0 /\ offset0 = NoMeasure /\ round = 0
    /\ nScrollIntoView = 0 /\ nPattern = 0 /\ nWheel = 0
    /\ lastRound = NoRound /\ prevConverged = FALSE
    /\ elapsed = 0 /\ polls = 0

CenterEnvUnchanged ==
    UNCHANGED <<reacqVars, favVars, connVars, classVars, selVars, scroll_item, iface_scroll>>

\* lines 524-532: entry, and the ScrollIntoView call on the node
CenterInvoke ==
    /\ cpc \in {"idle", "done"}
    /\ prevConverged' = (cpc = "done" /\ offset0.seen /\ Within(offset))
    /\ offset' = 0 /\ offset0' = NoMeasure /\ round' = 0
    /\ nPattern' = 0 /\ nWheel' = 0 /\ lastRound' = NoRound
    /\ elapsed' = 0 /\ polls' = 0
    /\ IF ~pwa_ready THEN cpc' = "done" /\ nScrollIntoView' = 0
       ELSE IF scroll_item = "absent" THEN cpc' = "done" /\ nScrollIntoView' = 0
       ELSE IF scroll_item = "raises" THEN cpc' = "done" /\ nScrollIntoView' = 1
       ELSE cpc' = "settle" /\ nScrollIntoView' = 1
    /\ CenterEnvUnchanged

\* lines 322-331 and 534-536: one pass of the while loop of _wait_rect_settle,
\* or its end.  A pass sleeps for one interval at least and samples the
\* rectangle, which raises, has settled, or is still moving.
CenterSettle ==
    /\ cpc = "settle"
    /\ IF TimedOut(elapsed)
       THEN cpc' = "measure" /\ elapsed' = 0 /\ polls' = 0
       ELSE /\ polls <= SettlePolls
            /\ \E d \in PollDurations, sample \in {"raises", "settled", "moving"} :
                  CASE sample = "raises"  -> cpc' = "done" /\ elapsed' = 0 /\ polls' = 0
                    [] sample = "settled" -> cpc' = "measure" /\ elapsed' = 0 /\ polls' = 0
                    [] sample = "moving"  ->
                         /\ cpc' = "settle"
                         /\ elapsed' = Min(elapsed + d, SettlePolls)
                         /\ polls' = polls + 1
    /\ UNCHANGED <<offset, offset0, round, nScrollIntoView, nPattern, nWheel,
                   lastRound, prevConverged>>
    /\ CenterEnvUnchanged

\* lines 538-545: the first measurement
CenterMeasure ==
    /\ cpc = "measure"
    /\ \/ /\ cpc' = "done"                      \* rectangle() raises
          /\ UNCHANGED <<offset, offset0>>
       \/ \E o \in Offsets :
             /\ offset' = o
             /\ offset0' = [seen |-> TRUE, value |-> o]
             /\ cpc' = IF Within(o) THEN "done" ELSE "loop"
    /\ UNCHANGED <<round, nScrollIntoView, nPattern, nWheel, lastRound, prevConverged,
                   elapsed, polls>>
    /\ CenterEnvUnchanged

(* lines 550-570: one pass of "for _ in range(3)".  The container is one whose
   wheel calls behave as one of "outcomes"; the movement _safe_wheel asks for is
   recorded, and what the container then did is seen only through the next
   measurement. *)
Round(outcomes) ==
    /\ cpc = "loop"
    /\ IF round = MaxRounds \/ Within(offset)
       THEN /\ cpc' = "done"
            /\ UNCHANGED <<offset, round, nPattern, nWheel, lastRound>>
       ELSE LET direction == IF offset > 0 THEN "down" ELSE "up"
                repeats == step_for(offset)
            IN  \E applied \in 0..repeats, threw \in BOOLEAN :
                  \* _scroll_vertical_via_pattern: no interface, or "applied"
                  \* increments done and then either all done or an exception
                  /\ iface_scroll => (threw <=> applied < repeats)
                  /\ ~iface_scroll => (applied = 0 /\ ~threw)
                  /\ LET used_pattern == iface_scroll /\ ~threw
                         wheel_steps == IF used_pattern THEN 0
                                        ELSE IF offset > 0 THEN -repeats ELSE repeats
                     IN  /\ nPattern' = nPattern + applied
                         /\ nWheel' = nWheel + (IF used_pattern THEN 0 ELSE 1)
                         /\ \E w \in {_safe_wheel(wheel_steps, o) : o \in outcomes} :
                               lastRound' = [direction |-> direction,
                                             repeats |-> repeats,
                                             applied |-> applied,
                                             wheel |-> wheel_steps, moves |-> w]
                  /\ round' = round + 1
                  /\ \/ cpc' = "done" /\ offset' = offset     \* re-measuring raises
                     \/ \E o \in Offsets : offset' = o /\ cpc' = "loop"
    /\ UNCHANGED <<offset0, nScrollIntoView, prevConverged, elapsed, polls>>
    /\ CenterEnvUnchanged

\* a container that has wheel_scroll, which works
WheelWorks ==
    [wheel_scroll |-> "ok", wheel_mouse_input |-> "ok", rectangle |-> "ok",
     mouse_scroll |-> "ok", mouse_wheel |-> "ok", set_focus |-> "ok"]

CenterRound == Round({WheelWorks})

\* a container of any kind: each wheel call may be missing or may raise
CenterRoundAnyWheel == Round(WheelOutcomes)

NextCenter == CenterInvoke \/ CenterSettle \/ CenterMeasure \/ CenterRound

SpecCenter == InitCenter /\ [][NextCenter]_vars

\* the thread that runs the routine is scheduled: a step that can be taken is taken
SpecCenterFair ==
    SpecCenter /\ WF_vars(CenterSettle) /\ WF_vars(CenterMeasure) /\ WF_vars(CenterRound)

NextWheel == CenterInvoke \/ CenterSettle \/ CenterMeasure \/ CenterRoundAnyWheel

SpecWheel == InitCenter /\ [][NextWheel]_vars

\* an invocation made again after a converged one, itself measuring |offset| <= 10
AgainAtConvergence ==
    cpc = "done" /\ prevConverged /\ offset0.seen /\ Abs(offset0.value) <= 2 * Tolerance

(* C4 (as stated): invoked again at convergence, centerNode issues no scroll call
   of any kind on the node or the container. *)
C4_NoScrollCallAtAll ==
    AgainAtConvergence => nScrollIntoView + nPattern + nWheel = 0

(* C4 (amended): invoked again at convergence, centerNode issues no corrective
   scroll on the container (no pattern scroll, no wheel or keyboard fallback) and
   runs no correction round; the scroll-into-view call on the node is still issued. *)
C4_NoCorrectionAtConvergence ==
    AgainAtConvergence =>
        (nPattern = 0 /\ nWheel = 0 /\ round = 0 /\ nScrollIntoView = 1)

C4_Witness ==
    AgainAtConvergence /\ offset0.value = 20 /\ nPattern = 0 /\ nWheel = 0

-----------------------------------------------------------------------------
(* Settings, favorites buffers and the favorites tree.

   A JSON object / Python dict is a record whose DOMAIN is its key set, so
   "k in d" is k \in DOMAIN d and d.get(k, v) tests the domain.  The buffer
   collection, a dict kept in insertion order, is a sequence of
   [name, data] pairs with distinct names.  A serialized favorite is a record
   with the optional keys "target" and "children"; a live tree item is
   [type, text, payload, children] with payload the ROLE_DATA dict.  An item is
   identified by its path, the sequence of child indices from the root.
   Of the settings only the favorites keys are kept. *)

DefaultBufferName == "DefaultBuffer"
NewGroupName == "NewGroup"
NoName == "NoName"
EmptyTarget == "{}"

\* lines 76-82
DEFAULT_SETTINGS ==
    [connection_signature |-> NoSig,
     favorites_buffers |-> << [name |-> DefaultBufferName, data |-> << >>] >>,
     active_buffer |-> DefaultBufferName]

\* str.strip() on the names a dialog can return
Strip(text) ==
    CASE text = " "   -> ""
      [] text = " B1" -> "B1"
      [] text = " S"  -> "S"
      [] OTHER        -> text

\* dict helpers on the buffer collection
Keys(buffers) == [i \in 1..Len(buffers) |-> buffers[i].name]
HasKey(buffers, name) == \E i \in 1..Len(buffers) : buffers[i].name = name
IndexOf(names, name) == CHOOSE i \in 1..Len(names) : names[i] = name
GetData(buffers, name, dflt) ==
    IF HasKey(buffers, name) THEN buffers[IndexOf(Keys(buffers), name)].data ELSE dflt
SetData(buffers, name, data) ==
    IF HasKey(buffers, name)
    THEN [buffers EXCEPT ![IndexOf(Keys(buffers), name)].data = data]
    ELSE Append(buffers, [name |-> name, data |-> data])
DelKey(buffers, name) ==
    SelectSeq(buffers, LAMBDA b : b.name # name)

Without(d, key) == [k \in DOMAIN d \ {key} |-> d[k]]
With(d, key, value) == [k \in DOMAIN d \cup {key} |-> IF k = key THEN value ELSE d[k]]

RemoveAt(seq, i) == SubSeq(seq, 1, i - 1) \o SubSeq(seq, i + 1, Len(seq))
InsertAt(seq, i, x) == SubSeq(seq, 1, i - 1) \o <<x>> \o SubSeq(seq, i, Len(seq))

\* ---- paths into the tree
ParentPath(p) == SubSeq(p, 1, Len(p) - 1)
LastIndex(p) == p[Len(p)]
IsPrefix(a, b) == Len(a) <= Len(b) /\ SubSeq(b, 1, Len(a)) = a

RECURSIVE ItemAt(_, _)
ItemAt(items, p) ==
    IF Len(p) = 1 THEN items[p[1]] ELSE ItemAt(items[p[1]].children, Tail(p))

RECURSIVE PathsOf(_)
PathsOf(items) ==
    UNION { {<<i>>} \cup { <<i>> \o q : q \in PathsOf(items[i].children) }
            : i \in 1..Len(items) }

\* childCount() of the item at pp, or of the invisible root for << >>
ChildCount(items, pp) == IF pp = << >> THEN Len(items) ELSE Len(ItemAt(items, pp).children)

\* parent.takeChild(index): the tree without the item at p
RECURSIVE TakeChild(_, _)
TakeChild(items, p) ==
    IF Len(p) = 1 THEN RemoveAt(items, p[1])
    ELSE [items EXCEPT ![p[1]].children = TakeChild(@, Tail(p))]

\* parent.insertChild(i, item) on the parent at pp (1-based i)
RECURSIVE InsertChild(_, _, _, _)
InsertChild(items, pp, i, item) ==
    IF pp = << >> THEN InsertAt(items, i, item)
    ELSE [items EXCEPT ![pp[1]].children = InsertChild(@, Tail(pp), i, item)]

RECURSIVE SetText(_, _, _)
SetText(items, p, text) ==
    IF Len(p) = 1 THEN [items EXCEPT ![p[1]].text = text]
    ELSE [items EXCEPT ![p[1]].children = SetText(@, Tail(p), text)]

\* where the item at p is once the item at s (not an ancestor of p) is taken out
Shift(p, s) ==
    LET k == Len(s)
    IN  IF Len(p) >= k /\ SubSeq(p, 1, k - 1) = SubSeq(s, 1, k - 1) /\ p[k] > s[k]
        THEN [p EXCEPT ![k] = @ - 1]
        ELSE p

RECURSIVE Size(_)
RECURSIVE SizeAll(_)
\* number of nodes of a serialized favorite or of a live item
Size(node) == 1 + (IF "children" \in DOMAIN node THEN SizeAll(node.children) ELSE 0)
SizeAll(list) == IF list = << >> THEN 0 ELSE Size(Head(list)) + SizeAll(Tail(list))

RECURSIVE Missing(_)
RECURSIVE MissingAll(_)
\* number of uuid4() identifiers _append_fav_node has to make up for a node
Missing(node) ==
    (IF "id" \in DOMAIN node THEN 0 ELSE 1)
    + (IF "children" \in DOMAIN node THEN MissingAll(node.children) ELSE 0)
MissingAll(list) == IF list = << >> THEN 0 ELSE Missing(Head(list)) + MissingAll(Tail(list))

\* an identifier that is present and empty ("" or null): line 1864 takes it
\* for no identifier at all
EmptyId == 0

RECURSIVE EmptyIds(_)
RECURSIVE EmptyIdsAll(_)
\* number of uuid4() identifiers _serialize_fav_item has to make up for an item
EmptyIds(item) ==
    (IF item.payload.id = EmptyId THEN 1 ELSE 0) + EmptyIdsAll(item.children)
EmptyIdsAll(items) ==
    IF items = << >> THEN 0 ELSE EmptyIds(Head(items)) + EmptyIdsAll(Tail(items))

\* ---- lines 1859-1874; nid is the next identifier uuid4() would return
RECURSIVE _serialize_fav_item(_, _)
RECURSIVE SerializeTree(_, _)
_serialize_fav_item(item, nid) ==
    LET node_type == item.type
        empty == item.payload.id = EmptyId
        node == [type |-> node_type,
                 id |-> IF empty THEN nid ELSE item.payload.id,
                 name |-> item.text]
        node2 == IF node_type = "section"
                 THEN With(node, "target",
                           IF "target" \in DOMAIN item.payload
                           THEN item.payload.target ELSE EmptyTarget)
                 ELSE node
        children == SerializeTree(item.children, IF empty THEN nid + 1 ELSE nid)
    IN  IF Len(children) > 0 THEN With(node2, "children", children) ELSE node2

\* lines 1731-1734: the list _save_favorites builds from the top-level items
SerializeTree(items, nid) ==
    IF items = << >> THEN << >>
    ELSE <<_serialize_fav_item(Head(items), nid)>>
         \o SerializeTree(Tail(items), nid + EmptyIds(Head(items)))

\* ---- lines 1876-1911; nid is the next identifier uuid4() would return
RECURSIVE _append_fav_node(_, _)
RECURSIVE AppendNodes(_, _)
AppendNodeNoTarget(node, nid) ==
    LET node_type == IF "type" \in DOMAIN node THEN node.type ELSE "group"
        name == IF "name" \in DOMAIN node THEN node.name ELSE NoName
        has_id == "id" \in DOMAIN node
        id == IF has_id THEN node.id ELSE nid
        payload == IF node_type = "section"
                   THEN [id |-> id, target |-> EmptyTarget]
                   ELSE [id |-> id]
        kids == IF "children" \in DOMAIN node THEN node.children ELSE << >>
    IN  [type |-> node_type, text |-> name, payload |-> payload,
         children |-> AppendNodes(kids, IF has_id THEN nid ELSE nid + 1)]
_append_fav_node(node, nid) ==
    LET node_type == IF "type" \in DOMAIN node THEN node.type ELSE "group"
        name == IF "name" \in DOMAIN node THEN node.name ELSE NoName
        has_id == "id" \in DOMAIN node
        id == IF has_id THEN node.id ELSE nid
        payload == IF node_type = "section"
                   THEN [id |-> id,
                         target |-> IF "target" \in DOMAIN node
                                    THEN node.target ELSE EmptyTarget]
                   ELSE [id |-> id]
        kids == IF "children" \in DOMAIN node THEN node.children ELSE << >>
    IN  [type |-> node_type, text |-> name, payload |-> payload,
         children |-> AppendNodes(kids, IF has_id THEN nid ELSE nid + 1)]
AppendNodes(list, nid) ==
    IF list = << >> THEN << >>
    ELSE <<_append_fav_node(Head(list), nid)>>
         \o AppendNodes(Tail(list), nid + Missing(Head(list)))

-----------------------------------------------------------------------------
(* The window's procedures, as functions of the part of the state they read
   and write: g = [settings, file, active_buffer_name, buffer_list, fav_tree,
   next_id, clipboard_data, buffer_clipboard_data]. *)

RECURSIVE IdsOf(_)
\* the identifiers held by a list of serialized favorites
IdsOf(list) ==
    IF list = << >> THEN {}
    ELSE LET node == Head(list)
         IN  (IF "id" \in DOMAIN node THEN {node.id} ELSE {})
             \cup (IF "children" \in DOMAIN node THEN IdsOf(node.children) ELSE {})
             \cup IdsOf(Tail(list))

RECURSIVE IdsOfBuffers(_)
IdsOfBuffers(buffers) ==
    IF buffers = << >> THEN {} ELSE IdsOf(Head(buffers).data) \cup IdsOfBuffers(Tail(buffers))

RECURSIVE ItemIds(_)
\* the identifiers held by the items of a tree
ItemIds(items) ==
    IF items = << >> THEN {}
    ELSE {Head(items).payload.id} \cup ItemIds(Head(items).children)
         \cup ItemIds(Tail(items))

\* every identifier the window holds somewhere
UsedIds ==
    ItemIds(fav_tree)
    \cup (IF "favorites_buffers" \in DOMAIN settings
          THEN IdsOfBuffers(settings.favorites_buffers) ELSE {})
    \cup (IF "favorites" \in DOMAIN settings THEN IdsOf(settings.favorites) ELSE {})
    \cup (IF clipboard_data = NoClip THEN {} ELSE IdsOf(<<clipboard_data>>))
    \cup (IF buffer_clipboard_data = NoClip THEN {} ELSE IdsOf(buffer_clipboard_data.data))

\* uuid4() returns identifiers never seen before: the integers above every
\* identifier in use, in order
NextId == 1 + (IF UsedIds = {} THEN 0 ELSE CHOOSE m \in UsedIds : \A k \in UsedIds : k <= m)

Cur ==
    [settings |-> settings, file |-> file,
     active_buffer_name |-> active_buffer_name, buffer_list |-> buffer_list,
     fav_tree |-> fav_tree, next_id |-> NextId,
     clipboard_data |-> clipboard_data,
     buffer_clipboard_data |-> buffer_clipboard_data]

Commit(g) ==
    /\ settings' = g.settings
    /\ file' = g.file
    /\ active_buffer_name' = g.active_buffer_name
    /\ buffer_list' = g.buffer_list
    /\ fav_tree' = g.fav_tree
    /\ clipboard_data' = g.clipboard_data
    /\ buffer_clipboard_data' = g.buffer_clipboard_data

\* settings.get("favorites_buffers", {})
BuffersOf(s) == IF "favorites_buffers" \in DOMAIN s THEN s.favorites_buffers ELSE << >>
\* settings.get("active_buffer")
ActiveOf(s) == IF "active_buffer" \in DOMAIN s THEN s.active_buffer ELSE ""

LoadSettingsKeepLegacy(f) ==
    IF "missing" \in DOMAIN f \/ "corrupt" \in DOMAIN f THEN DEFAULT_SETTINGS
    ELSE LET data ==
                 IF "favorites" \in DOMAIN f /\ "favorites_buffers" \notin DOMAIN f
                 THEN With(With(f, "favorites_buffers",
                                << [name |-> DefaultBufferName, data |-> f.favorites] >>),
                           "active_buffer", DefaultBufferName)
                 ELSE f
         IN  data @@ DEFAULT_SETTINGS

\* lines 85-109
load_settings(f) ==
    IF "missing" \in DOMAIN f \/ "corrupt" \in DOMAIN f THEN DEFAULT_SETTINGS
    ELSE LET data ==
                 IF "favorites" \in DOMAIN f /\ "favorites_buffers" \notin DOMAIN f
                 THEN Without(
                          With(With(f, "favorites_buffers",
                                    << [name |-> DefaultBufferName, data |-> f.favorites] >>),
                               "active_buffer", DefaultBufferName),
                          "favorites")
                 ELSE f
         IN  data @@ DEFAULT_SETTINGS

\* lines 112-123 and 1745-1747: the dict is stripped of "favorites" and written
save_settings(g) ==
    LET data == Without(g.settings, "favorites")
    IN  [g EXCEPT !.settings = data, !.file = data]

SaveFavoritesNoWrite(g) ==
    IF g.active_buffer_name = "" THEN g
    ELSE [g EXCEPT !.settings =
             With(@, "favorites_buffers",
                  SetData(BuffersOf(@), g.active_buffer_name,
                          SerializeTree(g.fav_tree, g.next_id))),
                   !.next_id = @ + EmptyIdsAll(g.fav_tree)]

\* lines 1725-1743
_save_favorites(g) ==
    IF g.active_buffer_name = "" THEN g
    ELSE save_settings(
             [g EXCEPT !.settings =
                 With(@, "favorites_buffers",
                      SetData(BuffersOf(@), g.active_buffer_name,
                              SerializeTree(g.fav_tree, g.next_id))),
                       !.next_id = @ + EmptyIdsAll(g.fav_tree)])

LoadTreeActiveNotStored(g, buffer_name) ==
    LET favorites_data == GetData(BuffersOf(g.settings), buffer_name, << >>)
        g1 == [g EXCEPT !.fav_tree = AppendNodes(favorites_data, g.next_id),
                        !.next_id = @ + MissingAll(favorites_data),
                        !.active_buffer_name = buffer_name]
        g2 == IF favorites_data # << >> THEN _save_favorites(g1) ELSE g1
    IN  save_settings(g2)

\* lines 1710-1723.  Every item appended fires itemChanged (line 1260), which
\* runs _save_favorites: once the last item is in, the buffer holds the
\* serialized tree.  No item, no itemChanged.
_load_tree_from_buffer(g, buffer_name) ==
    LET favorites_data == GetData(BuffersOf(g.settings), buffer_name, << >>)
        g1 == [g EXCEPT !.fav_tree = AppendNodes(favorites_data, g.next_id),
                        !.next_id = @ + MissingAll(favorites_data),
                        !.active_buffer_name = buffer_name]
        g2 == IF favorites_data # << >> THEN _save_favorites(g1) ELSE g1
    IN  save_settings([g2 EXCEPT !.settings = With(@, "active_buffer", buffer_name)])

\* lines 1674-1708; select_row 0 stands for the default -1, rows count from 1
_load_buffers_and_favorites(g, select_row) ==
    LET s1 == IF BuffersOf(g.settings) = << >>
              THEN With(g.settings, "favorites_buffers", DEFAULT_SETTINGS.favorites_buffers)
              ELSE g.settings
        buffer_names == Keys(BuffersOf(s1))
        active_buffer == ActiveOf(s1)
        InNames(n) == \E i \in 1..Len(buffer_names) : buffer_names[i] = n
        target_row ==
            IF select_row # 0
            THEN (IF select_row <= Len(buffer_names) THEN select_row ELSE 0)
            ELSE IF InNames(active_buffer) THEN IndexOf(buffer_names, active_buffer)
            ELSE IF Len(buffer_names) > 0 THEN 1
            ELSE 0
        g1 == [g EXCEPT !.settings = s1,
                        !.buffer_list = [items |-> buffer_names, row |-> target_row],
                        !.active_buffer_name =
                            IF target_row # 0 THEN buffer_names[target_row] ELSE @]
    IN  IF g1.active_buffer_name # ""
        THEN _load_tree_from_buffer(g1, g1.active_buffer_name)
        ELSE g1

\* lines 1966-1973, run by currentItemChanged (line 1179)
_on_buffer_changed(g, row) ==
    IF row # 0 /\ g.buffer_list.items[row] # g.active_buffer_name
    THEN _load_tree_from_buffer(g, g.buffer_list.items[row])
    ELSE g

\* findItems(name) and setCurrentItem(items[0]), lines 1993-1997
SetCurrentItem(g, name) ==
    IF \E i \in 1..Len(g.buffer_list.items) : g.buffer_list.items[i] = name
    THEN LET row == IndexOf(g.buffer_list.items, name)
         IN  IF row # g.buffer_list.row
             THEN _on_buffer_changed([g EXCEPT !.buffer_list.row = row], row)
             ELSE g
    ELSE g

\* what a handler leaves behind: the state, the message box it showed, and
\* (drag-and-drop, paste) the kinds and identifiers of the items involved
R(g, msg) == [g |-> g, notice |-> msg, detail |-> NoDetail]
RD(g, msg, detail) == [g |-> g, notice |-> msg, detail |-> detail]

AddBufferOverwrites(g, text) ==
    IF text = "" THEN R(g, "")
    ELSE LET buffer_name == Strip(text)
         IN  IF buffer_name = "" THEN R(g, "")
             ELSE LET g1 == save_settings(
                               [g EXCEPT !.settings.favorites_buffers =
                                   SetData(@, buffer_name, << >>)])
                      g2 == _load_buffers_and_favorites(g1, 0)
                  IN  R(SetCurrentItem(g2, buffer_name), "")

\* ---- lines 1975-1997
_add_buffer(g, text) ==
    IF text = "" THEN R(g, "")
    ELSE LET buffer_name == Strip(text)
         IN  IF buffer_name = "" THEN R(g, "")
             ELSE IF HasKey(g.settings.favorites_buffers, buffer_name)
             THEN R(g, "duplicate_name")
             ELSE LET g1 == save_settings(
                               [g EXCEPT !.settings.favorites_buffers =
                                   SetData(@, buffer_name, << >>)])
                      g2 == _load_buffers_and_favorites(g1, 0)
                  IN  R(SetCurrentItem(g2, buffer_name), "")

\* lines 2018-2027: the collection rebuilt in the widget's order
RECURSIVE RenameKeys(_, _, _, _, _)
RenameKeys(buffer_names, old_buffers, old_name, new_name, new_buffers) ==
    IF buffer_names = << >> THEN new_buffers
    ELSE LET name == Head(buffer_names)
         IN  RenameKeys(Tail(buffer_names), old_buffers, old_name, new_name,
                 IF name = old_name
                 THEN SetData(new_buffers, new_name, GetData(old_buffers, old_name, << >>))
                 ELSE IF HasKey(old_buffers, name)
                 THEN SetData(new_buffers, name, GetData(old_buffers, name, << >>))
                 ELSE new_buffers)

RenameBufferToEnd(g, text) ==
    IF g.buffer_list.row = 0 THEN R(g, "")
    ELSE LET old_name == g.buffer_list.items[g.buffer_list.row]
             new_name == Strip(text)
         IN  IF text = "" \/ new_name = old_name \/ new_name = "" THEN R(g, "")
             ELSE IF HasKey(g.settings.favorites_buffers, new_name)
             THEN R(g, "duplicate_name")
             ELSE LET old_buffers == g.settings.favorites_buffers
                      new_buffers == SetData(DelKey(old_buffers, old_name), new_name,
                                             GetData(old_buffers, old_name, << >>))
                      s1 == [g.settings EXCEPT !.favorites_buffers = new_buffers]
                      s2 == IF s1.active_buffer = old_name
                            THEN [s1 EXCEPT !.active_buffer = new_name] ELSE s1
                      g1 == save_settings([g EXCEPT !.settings = s2])
                      g2 == _load_buffers_and_favorites(g1, 0)
                  IN  R(SetCurrentItem(g2, new_name), "")

\* ---- lines 1999-2043
_rename_buffer(g, text) ==
    IF g.buffer_list.row = 0 THEN R(g, "")
    ELSE LET old_name == g.buffer_list.items[g.buffer_list.row]
             new_name == Strip(text)
         IN  IF text = "" \/ new_name = old_name \/ new_name = "" THEN R(g, "")
             ELSE IF HasKey(g.settings.favorites_buffers, new_name)
             THEN R(g, "duplicate_name")
             ELSE LET new_buffers == RenameKeys(g.buffer_list.items,
                                                g.settings.favorites_buffers,
                                                old_name, new_name, << >>)
                      s1 == [g.settings EXCEPT !.favorites_buffers = new_buffers]
                      s2 == IF s1.active_buffer = old_name
                            THEN [s1 EXCEPT !.active_buffer = new_name] ELSE s1
                      g1 == save_settings([g EXCEPT !.settings = s2])
                      g2 == _load_buffers_and_favorites(g1, 0)
                  IN  R(SetCurrentItem(g2, new_name), "")

DeleteAllowedAlways(count) == TRUE

\* lines 2051-2055: the refusal is "count() <= 1"
DeleteAllowed(count) == ~(count <= 1)

\* ---- lines 2045-2078
_delete_buffer(g, reply) ==
    IF g.buffer_list.row = 0 THEN R(g, "")
    ELSE IF ~DeleteAllowed(Len(g.buffer_list.items)) THEN R(g, "delete_refused")
    ELSE IF reply # "yes" THEN R(g, "")
    ELSE LET deleted_name == g.buffer_list.items[g.buffer_list.row]
             remaining == DelKey(g.settings.favorites_buffers, deleted_name)
             s1 == [g.settings EXCEPT !.favorites_buffers = remaining]
             s2 == IF s1.active_buffer = deleted_name
                   THEN [s1 EXCEPT !.active_buffer =
                            IF remaining # << >> THEN remaining[1].name ELSE ""]
                   ELSE s1
             g1 == save_settings([g EXCEPT !.settings = s2])
         IN  R(_load_buffers_and_favorites(g1, 0), "")

\* lines 1953-1958
RECURSIVE ReorderKeys(_, _, _)
ReorderKeys(buffer_names, old_buffers, new_buffers) ==
    IF buffer_names = << >> THEN new_buffers
    ELSE LET name == Head(buffer_names)
         IN  ReorderKeys(Tail(buffer_names), old_buffers,
                 IF HasKey(old_buffers, name)
                 THEN SetData(new_buffers, name, GetData(old_buffers, name, << >>))
                 ELSE new_buffers)

\* ---- lines 1939-1963; rows count from 1, so "0 <= index" reads "1 <= index"
_swap_buffer_list(g, index1, index2) ==
    LET buffer_names == g.buffer_list.items
        InRange(i) == 1 <= i /\ i <= Len(buffer_names)
    IN  IF ~(InRange(index1) /\ InRange(index2)) THEN R(g, "")
        ELSE LET swapped == [buffer_names EXCEPT ![index1] = buffer_names[index2],
                                                 ![index2] = buffer_names[index1]]
                 new_buffers == ReorderKeys(swapped, g.settings.favorites_buffers, << >>)
                 g1 == save_settings([g EXCEPT !.settings.favorites_buffers = new_buffers])
             IN  R(_load_buffers_and_favorites(g1, index2), "")

\* ---- lines 1925-1929
_move_buffer_up(g) ==
    LET current_row == g.buffer_list.row
    IN  IF current_row > 1 THEN _swap_buffer_list(g, current_row, current_row - 1)
        ELSE R(g, "")

\* ---- lines 1931-1936
_move_buffer_down(g) ==
    LET current_row == g.buffer_list.row
    IN  IF current_row < Len(g.buffer_list.items)
        THEN _swap_buffer_list(g, current_row, current_row + 1)
        ELSE R(g, "")

\* ---- lines 2081-2094
_copy_buffer(g) ==
    IF g.buffer_list.row = 0 THEN R(g, "")
    ELSE LET buffer_name == g.buffer_list.items[g.buffer_list.row]
         IN  IF HasKey(g.settings.favorites_buffers, buffer_name)
             THEN R([g EXCEPT !.buffer_clipboard_data =
                        [name |-> buffer_name,
                         data |-> GetData(g.settings.favorites_buffers, buffer_name, << >>)]],
                    "")
             ELSE R(g, "")

\* ---- lines 2096-2136
_paste_buffer(g, text) ==
    IF g.buffer_clipboard_data = NoClip THEN R(g, "no_buffer_clipboard")
    ELSE IF text = "" THEN R(g, "")
    ELSE LET new_buffer_name == Strip(text)
         IN  IF new_buffer_name = "" THEN R(g, "")
             ELSE IF HasKey(g.settings.favorites_buffers, new_buffer_name)
             THEN R(g, "duplicate_name")
             ELSE LET g1 == save_settings(
                               [g EXCEPT !.settings.favorites_buffers =
                                   SetData(@, new_buffer_name, g.buffer_clipboard_data.data)])
                      g2 == _load_buffers_and_favorites(g1, 0)
                  IN  R(SetCurrentItem(g2, new_buffer_name), "")

\* ---- lines 1791-1857; imported is the parsed file [is_list, data], text the
\* name typed
_import_favorites(g, reply, imported, text) ==
    IF ~imported.is_list THEN R(g, "import_error")
    ELSE IF reply = "yes"
    THEN IF text = "" THEN R(g, "")
         ELSE LET g1 == [g EXCEPT !.settings.favorites_buffers =
                            SetData(@, text, imported.data)]
                  g2 == _load_buffers_and_favorites(g1, 0)
                  g3 == SetCurrentItem(g2, text)
              IN  R(save_settings(g3), "import_ok")
    ELSE IF g.active_buffer_name = "" THEN R(g, "no_active_buffer")
         ELSE LET g1 == [g EXCEPT !.settings.favorites_buffers =
                            SetData(@, g.active_buffer_name, imported.data)]
                  g2 == _load_tree_from_buffer(g1, g.active_buffer_name)
              IN  R(save_settings(g2), "import_ok")

-----------------------------------------------------------------------------
(* The favorites tree's handlers.  sel is the path of the selected item,
   << >> when nothing is selected. *)

\* lines 2291-2293 (and 2204-2209, 2334-2337, 2371-2374): where a new item goes
TargetParent(items, sel) ==
    IF sel = << >> THEN << >>
    ELSE IF ItemAt(items, sel).type = "section" THEN ParentPath(sel)
    ELSE sel

AppendTo(items, pp, item) == InsertChild(items, pp, ChildCount(items, pp) + 1, item)

\* ---- lines 2290-2298
_add_group(g, sel) ==
    LET parent == TargetParent(g.fav_tree, sel)
        node == [type |-> "group", name |-> NewGroupName, children |-> << >>]
        item == _append_fav_node(node, g.next_id)
    IN  R(_save_favorites([g EXCEPT !.fav_tree = AppendTo(@, parent, item),
                                    !.next_id = @ + Missing(node)]), "")

\* ---- lines 2300-2340 and 2342-2377: both end alike; connected is
\* "self.onenote_window" (a window was picked, for the second handler)
_add_section(g, sel, connected, text, target) ==
    IF ~connected THEN R(g, "need_window")
    ELSE IF Strip(text) = "" THEN R(g, "")
    ELSE LET node == [type |-> "section", name |-> Strip(text), target |-> target]
             parent == TargetParent(g.fav_tree, sel)
             item == _append_fav_node(node, g.next_id)
         IN  R(_save_favorites([g EXCEPT !.fav_tree = AppendTo(@, parent, item),
                                         !.next_id = @ + Missing(node)]), "")

\* ---- the in-place editor commits a text: itemChanged, line 1260
ItemEdited(g, sel, text) ==
    IF sel = << >> THEN R(g, "")
    ELSE R(_save_favorites([g EXCEPT !.fav_tree = SetText(@, sel, text)]), "")

\* ---- lines 2385-2413
_delete_favorite_item(g, sel, reply) ==
    IF sel = << >> THEN R(g, "")
    ELSE IF reply # "yes" THEN R(g, "")
    ELSE R(_save_favorites([g EXCEPT !.fav_tree = TakeChild(@, sel)]), "")

MoveItemUpToTop(g, sel) ==
    IF sel = << >> THEN R(g, "")
    ELSE LET index == LastIndex(sel)
             taken_item == ItemAt(g.fav_tree, sel)
         IN  IF index > 1
             THEN R(_save_favorites(
                        [g EXCEPT !.fav_tree =
                            InsertChild(TakeChild(@, sel), ParentPath(sel),
                                        1, taken_item)]), "")
             ELSE R(g, "")

\* ---- lines 2242-2257
_move_item_up(g, sel) ==
    IF sel = << >> THEN R(g, "")
    ELSE LET index == LastIndex(sel)
             taken_item == ItemAt(g.fav_tree, sel)
         IN  IF index > 1
             THEN R(_save_favorites(
                        [g EXCEPT !.fav_tree =
                            InsertChild(TakeChild(@, sel), ParentPath(sel),
                                        index - 1, taken_item)]), "")
             ELSE R(g, "")

\* ---- lines 2259-2274
_move_item_down(g, sel) ==
    IF sel = << >> THEN R(g, "")
    ELSE LET index == LastIndex(sel)
             taken_item == ItemAt(g.fav_tree, sel)
         IN  IF index < ChildCount(g.fav_tree, ParentPath(sel))
             THEN R(_save_favorites(
                        [g EXCEPT !.fav_tree =
                            InsertChild(TakeChild(@, sel), ParentPath(sel),
                                        index + 1, taken_item)]), "")
             ELSE R(g, "")

\* ---- lines 2184-2193
_copy_favorite_item(g, sel) ==
    IF sel = << >> THEN R(g, "")
    ELSE RD([g EXCEPT !.clipboard_data = _serialize_fav_item(ItemAt(g.fav_tree, sel), g.next_id)], "",
            [NoDetail EXCEPT !.source_id = ItemAt(g.fav_tree, sel).payload.id])

DeepCopyKeepIds(node, nid) == node

\* lines 2211-2219; nid is the next identifier uuid4() would return
RECURSIVE _deep_copy_node(_, _)
RECURSIVE DeepCopyNodes(_, _)
_deep_copy_node(node, nid) ==
    LET new_node == With(node, "id", nid)
    IN  IF "children" \in DOMAIN new_node
        THEN With(new_node, "children", DeepCopyNodes(node.children, nid + 1))
        ELSE new_node
DeepCopyNodes(list, nid) ==
    IF list = << >> THEN << >>
    ELSE <<_deep_copy_node(Head(list), nid)>>
         \o DeepCopyNodes(Tail(list), nid + Size(Head(list)))

\* ---- lines 2195-2235
_paste_favorite_item(g, sel) ==
    IF g.clipboard_data = NoClip THEN R(g, "no_clipboard")
    ELSE LET parent == TargetParent(g.fav_tree, sel)
             copied_node == _deep_copy_node(g.clipboard_data, g.next_id)
             nid == g.next_id + Size(g.clipboard_data)
             new_item == _append_fav_node(copied_node, nid)
         IN  RD(_save_favorites([g EXCEPT !.fav_tree = AppendTo(@, parent, new_item),
                                          !.next_id = nid]), "",
                [NoDetail EXCEPT !.source_id = new_item.payload.id])

\* QTreeWidget.dropEvent with InternalMove (the super().dropEvent of line 883):
\* the dragged item is taken out and put back at the drop position.  drop is
\* [kind, target]: "viewport", or "on" / "above" / "below" the item at target,
\* which is neither the dragged item nor inside it.
QtDropMove(items, source, drop) ==
    LET item == ItemAt(items, source)
        taken == TakeChild(items, source)
        t == IF drop.kind = "viewport" THEN << >> ELSE Shift(drop.target, source)
    IN  CASE drop.kind = "viewport" -> AppendTo(taken, << >>, item)
          [] drop.kind = "on"       -> AppendTo(taken, t, item)
          [] drop.kind = "above"    -> InsertChild(taken, ParentPath(t), LastIndex(t), item)
          [] drop.kind = "below"    -> InsertChild(taken, ParentPath(t), LastIndex(t) + 1, item)

NeedsRepairNever(source_type, target_type) == FALSE

\* line 889
NeedsRepair(source_type, target_type) == source_type = "section" /\ target_type = "section"

\* ---- FavoritesTree.dropEvent, lines 875-902, and structureChanged (line 1259)
dropEvent(g, source, drop) ==
    IF source = << >> THEN R(g, "")
    ELSE LET moved == QtDropMove(g.fav_tree, source, drop)
             source_item == ItemAt(g.fav_tree, source)
             \* "target_item and source_item.parent() == target_item"
             onto == drop.kind = "on"
             t == IF onto THEN Shift(drop.target, source) ELSE << >>
             repaired ==
                 IF onto /\ NeedsRepair(source_item.type, ItemAt(g.fav_tree, drop.target).type)
                 THEN LET at == t \o <<ChildCount(moved, t)>>
                      IN  InsertChild(TakeChild(moved, at), ParentPath(t),
                                      LastIndex(t) + 1, source_item)
                 ELSE moved
         IN  RD(_save_favorites([g EXCEPT !.fav_tree = repaired]), "",
                [source_type |-> source_item.type, kind |-> drop.kind,
                 target_type |-> IF drop.kind = "viewport" THEN ""
                                 ELSE ItemAt(g.fav_tree, drop.target).type,
                 source_id |-> source_item.payload.id,
                 target_id |-> IF drop.kind = "viewport" THEN 0
                               ELSE ItemAt(g.fav_tree, drop.target).payload.id])

-----------------------------------------------------------------------------
(* The running window: start-up, then any handler in any order. *)

MaxNodes == 3
MaxBuffers == 3
MaxIds == 4

BufferNameInputs == {"", " ", " B1"}
ImportNameInputs == {"", " B1"}
SectionNameInputs == {" ", " S"}
ItemTexts == {"G"}
Replies == {"yes", "no"}
Targets == {"tgt"}

GroupNode(id, name, children) ==
    IF children = << >> THEN [type |-> "group", id |-> id, name |-> name]
    ELSE [type |-> "group", id |-> id, name |-> name, children |-> children]
SectionNode(id, name, children) ==
    IF children = << >> THEN [type |-> "section", id |-> id, name |-> name, target |-> "tgt"]
    ELSE [type |-> "section", id |-> id, name |-> name, target |-> "tgt",
          children |-> children]

\* favorites lists found in files written by earlier sessions
DocGroupOfSection == << GroupNode(1, "G", << SectionNode(2, "S", << >>) >>) >>

\* a list whose node carries no identifier
DocWithoutIds == << [type |-> "group", name |-> "G"] >>

ImportFiles ==
    { [is_list |-> FALSE, data |-> << >>] }
    \cup { [is_list |-> TRUE, data |-> d] : d \in {<< >>, DocGroupOfSection} }

Buf(name, data) == [name |-> name, data |-> data]

SettingsFiles ==
    { NoFile, [corrupt |-> TRUE],
      [favorites |-> << >>],
      [favorites |-> DocGroupOfSection],
      [favorites |-> DocWithoutIds],
      [favorites |-> DocGroupOfSection, active_buffer |-> "B1"],
      [favorites |-> DocGroupOfSection, active_buffer |-> "B1",
       favorites_buffers |-> << Buf("B1", << >>) >>],
      [favorites_buffers |-> << Buf("B1", DocGroupOfSection), Buf(DefaultBufferName, << >>) >>,
       active_buffer |-> "B1"],
      [favorites_buffers |-> << Buf("B1", DocGroupOfSection), Buf(DefaultBufferName, << >>) >>,
       active_buffer |-> "Gone"],
      [favorites_buffers |-> << >>, active_buffer |-> ""] }

RECURSIVE TotalNodes(_)
TotalNodes(buffers) ==
    IF buffers = << >> THEN 0 ELSE SizeAll(Head(buffers).data) + TotalNodes(Tail(buffers))

WithinBounds(g) ==
    /\ g.next_id <= MaxIds + 1
    /\ Len(BuffersOf(g.settings)) <= MaxBuffers
    /\ TotalNodes(BuffersOf(g.settings)) <= MaxNodes

Apply(op, outcome) ==
    \E r \in {outcome} :
        /\ WithinBounds(r.g)
        /\ Commit(r.g)
        /\ last' = [op |-> op, notice |-> r.notice, detail |-> r.detail]
        /\ UNCHANGED <<fpc, reacqVars, centerVars, connVars, classVars, selVars>>

InitFav ==
    /\ ConnParked
    /\ DesktopParked /\ pwa_ready = TRUE /\ CenterParked
    /\ fpc = "boot" /\ file \in SettingsFiles /\ settings = NoFile
    /\ active_buffer_name = "" /\ buffer_list = NoList /\ fav_tree = << >>
    /\ clipboard_data = NoClip /\ buffer_clipboard_data = NoClip
    /\ last = NoOp

\* line 936
StartLoadSettings ==
    /\ fpc = "boot"
    /\ fpc' = "loaded"
    /\ settings' = load_settings(file)
    /\ UNCHANGED <<file, active_buffer_name, buffer_list, fav_tree, clipboard_data,
                   buffer_clipboard_data, last, reacqVars, centerVars, connVars, classVars, selVars>>

\* line 996
StartLoadBuffers ==
    /\ fpc = "loaded"
    /\ fpc' = "ready"
    /\ Commit(_load_buffers_and_favorites(Cur, 0))
    /\ UNCHANGED <<last, reacqVars, centerVars, connVars, classVars, selVars>>

Selections == PathsOf(fav_tree) \cup {<< >>}

Drops(source) ==
    { [kind |-> "viewport", target |-> << >>] }
    \cup { [kind |-> k, target |-> t] :
             k \in {"on", "above", "below"},
             t \in { q \in PathsOf(fav_tree) : ~IsPrefix(source, q) } }

Ready == fpc = "ready"

\* the user picks another row of the buffer list (lines 1179, 1966-1973)
SelectBuffer ==
    /\ Ready
    /\ \E g \in {Cur}, row \in 1..Len(buffer_list.items) :
          /\ row # buffer_list.row
          /\ Apply("SelectBuffer", R(_on_buffer_changed([g EXCEPT !.buffer_list.row = row], row), ""))

AddBuffer == Ready /\ \E g \in {Cur} : \E text \in BufferNameInputs : Apply("AddBuffer", _add_buffer(g, text))
RenameBuffer == Ready /\ \E g \in {Cur} : \E text \in BufferNameInputs : Apply("RenameBuffer", _rename_buffer(g, text))
DeleteBuffer == Ready /\ \E g \in {Cur} : \E reply \in Replies : Apply("DeleteBuffer", _delete_buffer(g, reply))
MoveBufferUp == Ready /\ \E g \in {Cur} : Apply("MoveBufferUp", _move_buffer_up(g))
MoveBufferDown == Ready /\ \E g \in {Cur} : Apply("MoveBufferDown", _move_buffer_down(g))
CopyBuffer == Ready /\ \E g \in {Cur} : Apply("CopyBuffer", _copy_buffer(g))
PasteBuffer == Ready /\ \E g \in {Cur} : \E text \in BufferNameInputs : Apply("PasteBuffer", _paste_buffer(g, text))
\* "yes": into a new buffer
ImportAsBuffer ==
    Ready /\ \E g \in {Cur} : \E imported \in ImportFiles, text \in ImportNameInputs :
                Apply("ImportAsBuffer", _import_favorites(g, "yes", imported, text))
\* "no": over the active buffer
ImportOverActive ==
    Ready /\ \E g \in {Cur} : \E imported \in ImportFiles :
                Apply("ImportOverActive", _import_favorites(g, "no", imported, ""))

AddGroup == Ready /\ \E g \in {Cur} : \E sel \in Selections : Apply("AddGroup", _add_group(g, sel))
AddSection ==
    Ready /\ \E g \in {Cur} : \E sel \in Selections, connected \in BOOLEAN,
                text \in SectionNameInputs, target \in Targets :
                Apply("AddSection", _add_section(g, sel, connected, text, target))
EditItem ==
    Ready /\ \E g \in {Cur} : \E sel \in Selections, text \in ItemTexts : Apply("EditItem", ItemEdited(g, sel, text))
DeleteFavoriteItem ==
    Ready /\ \E g \in {Cur} : \E sel \in Selections, reply \in Replies :
                Apply("DeleteFavoriteItem", _delete_favorite_item(g, sel, reply))
MoveItemUp == Ready /\ \E g \in {Cur} : \E sel \in Selections : Apply("MoveItemUp", _move_item_up(g, sel))
MoveItemDown == Ready /\ \E g \in {Cur} : \E sel \in Selections : Apply("MoveItemDown", _move_item_down(g, sel))
CopyFavoriteItem == Ready /\ \E g \in {Cur} : \E sel \in Selections : Apply("CopyFavoriteItem", _copy_favorite_item(g, sel))
PasteFavoriteItem == Ready /\ \E g \in {Cur} : \E sel \in Selections : Apply("PasteFavoriteItem", _paste_favorite_item(g, sel))
DropItem ==
    Ready /\ \E g \in {Cur} : \E source \in PathsOf(fav_tree) : \E drop \in Drops(source) :
                Apply("DropItem", dropEvent(g, source, drop))

BufferHandlers ==
    \/ SelectBuffer \/ AddBuffer \/ RenameBuffer \/ DeleteBuffer
    \/ MoveBufferUp \/ MoveBufferDown \/ CopyBuffer \/ PasteBuffer \/ ImportAsBuffer

\* the window as it stands after starting without a settings file
Started ==
    _load_buffers_and_favorites(
        [settings |-> load_settings(NoFile), file |-> NoFile,
         active_buffer_name |-> "", buffer_list |-> NoList, fav_tree |-> << >>,
         next_id |-> 1, clipboard_data |-> NoClip, buffer_clipboard_data |-> NoClip], 0)

InitTree ==
    /\ ConnParked
    /\ DesktopParked /\ pwa_ready = TRUE /\ CenterParked
    /\ fpc = "ready" /\ last = NoOp
    /\ settings = Started.settings /\ file = Started.file
    /\ active_buffer_name = Started.active_buffer_name
    /\ buffer_list = Started.buffer_list /\ fav_tree = Started.fav_tree
    /\ clipboard_data = Started.clipboard_data
    /\ buffer_clipboard_data = Started.buffer_clipboard_data

NextTree ==
    \/ AddGroup \/ AddSection \/ DeleteFavoriteItem
    \/ MoveItemUp \/ MoveItemDown \/ DropItem \/ ImportOverActive

NextClip ==
    \/ AddGroup \/ AddSection \/ DeleteFavoriteItem
    \/ CopyFavoriteItem \/ PasteFavoriteItem

NextEdit == AddGroup \/ AddSection \/ EditItem \/ MoveItemDown

SpecEdit == InitTree /\ [][NextEdit]_vars

SpecClip == InitTree /\ [][NextClip]_vars

SpecTree == InitTree /\ [][NextTree]_vars

NextFav ==
    \/ StartLoadSettings \/ StartLoadBuffers \/ BufferHandlers
    \/ DeleteFavoriteItem \/ ImportOverActive

SpecFav == InitFav /\ [][NextFav]_vars

\* two buffers on file: the first one holds a section, the second one is active
TwoBuffersFile ==
    [favorites_buffers |-> << Buf("B1", << SectionNode(1, "S", << >>) >>),
                              Buf(DefaultBufferName, << >>) >>,
     active_buffer |-> DefaultBufferName]

\* the window as it stands after starting on that file
StartedTwo ==
    _load_buffers_and_favorites(
        [settings |-> load_settings(TwoBuffersFile), file |-> TwoBuffersFile,
         active_buffer_name |-> "", buffer_list |-> NoList, fav_tree |-> << >>,
         next_id |-> 2, clipboard_data |-> NoClip, buffer_clipboard_data |-> NoClip], 0)

InitMut ==
    /\ ConnParked
    /\ DesktopParked /\ pwa_ready = TRUE /\ CenterParked
    /\ fpc = "ready" /\ last = NoOp
    /\ settings = StartedTwo.settings /\ file = StartedTwo.file
    /\ active_buffer_name = StartedTwo.active_buffer_name
    /\ buffer_list = StartedTwo.buffer_list /\ fav_tree = StartedTwo.fav_tree
    /\ clipboard_data = StartedTwo.clipboard_data
    /\ buffer_clipboard_data = StartedTwo.buffer_clipboard_data

NextMut ==
    \/ AddGroup \/ AddSection \/ EditItem \/ DeleteFavoriteItem
    \/ MoveItemUp \/ MoveItemDown \/ CopyFavoriteItem \/ PasteFavoriteItem \/ DropItem

SpecMut == InitMut /\ [][NextMut]_vars

-----------------------------------------------------------------------------
(* Favorites documents as a settings file may hold them, written by this
   program or by hand: nodes without an identifier, with an empty one, without
   a type, a name or a target, with an empty list of children, sections that
   hold children. *)

DocNoId == << [type |-> "group", name |-> "G"] >>
DocEmptyId == << [type |-> "group", id |-> EmptyId, name |-> "G"] >>
DocNoType == << [name |-> "G"] >>
DocNoTarget == << [type |-> "section", id |-> 1, name |-> "S"] >>
DocNoName == << [type |-> "group", id |-> 2], GroupNode(1, "G", << >>) >>
DocEmptyChildren == << [type |-> "group", id |-> 1, name |-> "G", children |-> << >>] >>
DocNested ==
    << [type |-> "group", id |-> 1, name |-> "G",
        children |-> << [type |-> "section", name |-> "S", target |-> "tgt"],
                        [type |-> "group", id |-> EmptyId, name |-> "G"] >>] >>
DocSectionWithChild == << SectionNode(1, "S", << GroupNode(2, "G", << >>) >>) >>
DocEmptyIds ==
    << [type |-> "section", id |-> EmptyId, name |-> "S", target |-> "tgt",
        children |-> << [type |-> "group", id |-> EmptyId, name |-> "G"] >>],
       SectionNode(1, "S", << >>) >>

Documents ==
    { DocNoId, DocEmptyId, DocNoType, DocNoTarget, DocNoName, DocEmptyChildren,
      DocNested, DocSectionWithChild, DocEmptyIds, DocGroupOfSection }

DocFiles ==
    { [favorites_buffers |-> << Buf(DefaultBufferName, d) >>,
       active_buffer |-> DefaultBufferName] : d \in Documents }

InitDoc ==
    /\ ConnParked
    /\ DesktopParked /\ pwa_ready = TRUE /\ CenterParked
    /\ fpc = "boot" /\ file \in DocFiles /\ settings = NoFile
    /\ active_buffer_name = "" /\ buffer_list = NoList /\ fav_tree = << >>
    /\ clipboard_data = NoClip /\ buffer_clipboard_data = NoClip
    /\ last = NoOp

\* start-up reads the document; the handlers below write it again
NextDoc ==
    \/ StartLoadSettings \/ StartLoadBuffers
    \/ AddGroup \/ EditItem \/ MoveItemUp \/ MoveItemDown \/ DeleteFavoriteItem

SpecDoc == InitDoc /\ [][NextDoc]_vars

-----------------------------------------------------------------------------
(* The connection to a window: start-up, the worker threads (window scanner,
   reconnect worker, the dialog's window lister), the handlers their signals
   run on the UI thread, and closing and starting the program again.  A
   fingerprint is written [handle |-> h]; window 1 belongs to OneNote, window 2
   to another application. *)

MaxRuns == 2
MaxListWorkers == 2
MaxListReady == 2
MaxTimers == 2

OneNoteHandle == 1
OtherHandle == 2

\* lines 602-629, reduced to the handle
build_window_signature(win) == [handle |-> win]

\* settings.get("connection_signature")
SigOf(s) == IF "connection_signature" \in DOMAIN s THEN s.connection_signature ELSE NoSig

\* the file as save_settings (lines 112-123) leaves it
Written(data) == Without(data, "favorites")

\* lines 632-639: the file after save_connection_info
save_connection_info(f, win) ==
    Written(With(load_settings(f), "connection_signature", build_window_signature(win)))

\* lines 1596-1603: the file after disconnect_and_clear_info
ClearedFile(f) == Written(With(load_settings(f), "connection_signature", NoSig))

\* QThread.isRunning(): run() has not returned
IsRunning(s) == s \in {"running", "emitted"}

\* lines 1522-1533: the scanner thread and the refresh button after refresh_onenote_list
RefreshedScanner(s) == IF IsRunning(s) THEN s ELSE "running"
RefreshedButton(s, b) == IF IsRunning(s) THEN b ELSE FALSE

\* the windows reacquire_window_by_signature (lines 679-707) can return for a
\* fingerprint: its own handle when that window is visible, else any visible
\* window the scoring accepts, or None (0)
Reacquired(s) ==
    IF s.handle \in desktop THEN {s.handle} ELSE desktop \cup {0}

ConnFiles ==
    { NoFile,
      [connection_signature |-> build_window_signature(OneNoteHandle),
       favorites_buffers |-> << Buf(DefaultBufferName, << >>) >>,
       active_buffer |-> DefaultBufferName] }

InitConn ==
    /\ ClassParked
    /\ DesktopParked /\ pwa_ready = TRUE /\ CenterParked
    /\ fpc = "boot" /\ file \in ConnFiles /\ settings = NoFile
    /\ active_buffer_name = "" /\ buffer_list = NoList /\ fav_tree = << >>
    /\ clipboard_data = NoClip /\ buffer_clipboard_data = NoClip
    /\ last = NoOp
    /\ desktop = {OneNoteHandle, OtherHandle}
    /\ onenote_window = 0 /\ tree_control = 0
    /\ refresh_button = TRUE /\ center_button = FALSE /\ log = NoLog
    /\ timers = << >>
    /\ scanner = "none" /\ list_ready = 0
    /\ reconnect_pc = "none" /\ r_local = NoLocal /\ r_payload = NoPayload
    /\ dialog = "closed" /\ list_workers = 0
    /\ worker_wrote = FALSE /\ cleared = FALSE /\ runs = 1

FavSessionUnchanged ==
    UNCHANGED <<settings, active_buffer_name, buffer_list, fav_tree, clipboard_data,
                buffer_clipboard_data, last>>
WorkersUnchanged ==
    UNCHANGED <<scanner, list_ready, reconnect_pc, r_local, r_payload, list_workers>>
OtherModelsUnchanged == UNCHANGED <<reacqVars, centerVars, classVars, selVars>>

\* ---- __init__, lines 931-1006: settings, buffers and tree, then the two timers
StartWindow ==
    /\ fpc = "boot"
    /\ fpc' = "ready"
    /\ \E g \in {Cur} :
          Commit(_load_buffers_and_favorites([g EXCEPT !.settings = load_settings(file)], 0))
    /\ timers' = <<"refresh", "reconnect">>
    /\ center_button' = FALSE
    /\ UNCHANGED <<last, desktop, onenote_window, tree_control, refresh_button, log,
                   dialog, worker_wrote, cleared, runs>>
    /\ WorkersUnchanged /\ OtherModelsUnchanged

\* ---- the timer of line 1005 fires: refresh_onenote_list
TimerRefresh ==
    /\ fpc = "ready" /\ timers # << >> /\ Head(timers) = "refresh"
    /\ timers' = Tail(timers)
    /\ scanner' = RefreshedScanner(scanner)
    /\ refresh_button' = RefreshedButton(scanner, refresh_button)
    /\ UNCHANGED <<fpc, file, desktop, onenote_window, tree_control, list_ready,
                   reconnect_pc, r_local, r_payload, dialog, list_workers, worker_wrote,
                   cleared, runs>>
    /\ FavSessionUnchanged /\ OtherModelsUnchanged
    /\ UNCHANGED <<center_button, log>>

\* ---- the timer of line 1006 fires: _start_auto_reconnect, lines 1484-1488
TimerReconnect ==
    /\ fpc = "ready" /\ timers # << >> /\ Head(timers) = "reconnect"
    /\ timers' = Tail(timers)
    /\ refresh_button' = FALSE
    /\ reconnect_pc' = "start"
    /\ UNCHANGED <<fpc, file, desktop, onenote_window, tree_control, scanner, list_ready,
                   r_local, r_payload, dialog, list_workers, worker_wrote, cleared, runs>>
    /\ FavSessionUnchanged /\ OtherModelsUnchanged
    /\ UNCHANGED <<center_button, log>>

\* lines 461-472: the container found in a window, or None (0) when the window
\* is gone or shows no tree or list
_find_tree_or_list(win) == IF win \in desktop THEN {0, win} ELSE {0}

\* ---- _cache_tree_control, lines 1548-1554, queued by a connection
TimerCache ==
    /\ fpc = "ready" /\ timers # << >> /\ Head(timers) = "cache"
    /\ timers' = Tail(timers)
    /\ tree_control' \in _find_tree_or_list(onenote_window)
    /\ UNCHANGED <<fpc, file, desktop, onenote_window, refresh_button, center_button, log, dialog,
                   worker_wrote, cleared, runs>>
    /\ WorkersUnchanged /\ FavSessionUnchanged /\ OtherModelsUnchanged

\* ---- the refresh button (line 1311) is clicked
RefreshClicked ==
    /\ fpc = "ready" /\ dialog = "closed" /\ refresh_button
    /\ scanner' = RefreshedScanner(scanner)
    /\ refresh_button' = RefreshedButton(scanner, refresh_button)
    /\ UNCHANGED <<fpc, file, desktop, onenote_window, tree_control, timers, list_ready,
                   reconnect_pc, r_local, r_payload, dialog, list_workers, worker_wrote,
                   cleared, runs>>
    /\ FavSessionUnchanged /\ OtherModelsUnchanged
    /\ UNCHANGED <<center_button, log>>

\* ---- OneNoteWindowScanner.run, lines 760-780: the scan ends and "done" is
\* emitted; then run() returns
ScannerEmit ==
    /\ scanner = "running" /\ list_ready < MaxListReady
    /\ scanner' = "emitted"
    /\ list_ready' = list_ready + 1
    /\ UNCHANGED <<fpc, file, desktop, onenote_window, tree_control, refresh_button, center_button, log,
                   timers, reconnect_pc, r_local, r_payload, dialog, list_workers,
                   worker_wrote, cleared, runs>>
    /\ FavSessionUnchanged /\ OtherModelsUnchanged

ScannerExit ==
    /\ scanner = "emitted"
    /\ scanner' = "finished"
    /\ UNCHANGED <<fpc, file, desktop, onenote_window, tree_control, refresh_button, center_button, log,
                   timers, list_ready, reconnect_pc, r_local, r_payload, dialog,
                   list_workers, worker_wrote, cleared, runs>>
    /\ FavSessionUnchanged /\ OtherModelsUnchanged

\* ---- _on_onenote_list_ready, lines 1535-1546
OnListReady ==
    /\ fpc = "ready" /\ list_ready > 0
    /\ list_ready' = list_ready - 1
    /\ refresh_button' = TRUE
    /\ UNCHANGED <<fpc, file, desktop, onenote_window, tree_control, timers, scanner,
                   reconnect_pc, r_local, r_payload, dialog, list_workers, worker_wrote,
                   cleared, runs>>
    /\ FavSessionUnchanged /\ OtherModelsUnchanged
    /\ UNCHANGED <<center_button, log>>

ReconnectEnvUnchanged ==
    /\ UNCHANGED <<fpc, desktop, onenote_window, tree_control, refresh_button, center_button, log, timers,
                   scanner, list_ready, dialog, list_workers, runs>>
    /\ FavSessionUnchanged /\ OtherModelsUnchanged

StatusNotConnected == "not_connected"
StatusReconnectFailed == "reconnect_failed"
StatusReconnected == "auto_reconnected"

\* ---- load_connection_info_and_reconnect in the worker thread, lines 710-715
RLoad ==
    /\ reconnect_pc = "start"
    /\ LET sg == SigOf(load_settings(file))
       IN  /\ r_local' = [r_local EXCEPT !.sig = sg]
           /\ IF sg = NoSig
              THEN /\ r_payload' = [ok |-> FALSE, status |-> StatusNotConnected, sig |-> NoSig]
                   /\ reconnect_pc' = "emit"
              ELSE /\ r_payload' = r_payload
                   /\ reconnect_pc' = "lookup"
    /\ UNCHANGED <<file, worker_wrote, cleared>>
    /\ ReconnectEnvUnchanged

\* ---- lines 716-728: the lookup, win.is_visible() and win.window_text(); each
\* of them can raise when the window goes away in between, and "except
\* Exception" (lines 727-728) then returns the not-connected status
RLookup ==
    /\ reconnect_pc = "lookup"
    /\ \E win \in Reacquired(r_local.sig), fault \in BOOLEAN :
          IF fault
          THEN /\ r_payload' = [ok |-> FALSE, status |-> StatusNotConnected, sig |-> NoSig]
               /\ reconnect_pc' = "emit"
               /\ r_local' = r_local
          ELSE IF win # 0
          THEN /\ r_local' = [r_local EXCEPT !.win = win]
               /\ reconnect_pc' = "save_read"
               /\ r_payload' = r_payload
          ELSE /\ r_payload' = [ok |-> FALSE, status |-> StatusReconnectFailed, sig |-> NoSig]
               /\ reconnect_pc' = "emit"
               /\ r_local' = r_local
    /\ UNCHANGED <<file, worker_wrote, cleared>>
    /\ ReconnectEnvUnchanged

\* ---- save_connection_info in the worker thread (line 720): load_settings ...
RSaveRead ==
    /\ reconnect_pc = "save_read"
    /\ r_local' = [r_local EXCEPT !.settings = load_settings(file)]
    /\ reconnect_pc' = "save_write"
    /\ UNCHANGED <<file, r_payload, worker_wrote, cleared>>
    /\ ReconnectEnvUnchanged

\* ---- ... and save_settings; then the payload of lines 739-743
RSaveWrite ==
    /\ reconnect_pc = "save_write"
    /\ LET data == With(r_local.settings, "connection_signature",
                        build_window_signature(r_local.win))
       IN  file' = Written(data)
    /\ worker_wrote' = TRUE
    /\ r_payload' = [ok |-> TRUE, status |-> StatusReconnected,
                     sig |-> build_window_signature(r_local.win)]
    /\ cleared' = FALSE
    /\ reconnect_pc' = "emit"
    /\ UNCHANGED r_local
    /\ ReconnectEnvUnchanged

\* ---- line 749: finished.emit(payload); the thread ends
REmit ==
    /\ reconnect_pc = "emit"
    /\ reconnect_pc' = "queued"
    /\ UNCHANGED <<file, r_local, r_payload, worker_wrote, cleared>>
    /\ ReconnectEnvUnchanged

\* ---- _on_reconnect_done, lines 1490-1520
OnReconnectDone ==
    /\ fpc = "ready" /\ reconnect_pc = "queued" /\ Len(timers) < MaxTimers
    /\ reconnect_pc' = "none"
    /\ \E target \in (IF r_payload.ok THEN Reacquired(r_payload.sig) \cup {0} ELSE {0}) :
          IF target # 0
          THEN /\ onenote_window' = target
               /\ file' = save_connection_info(file, target)
               /\ cleared' = FALSE
               /\ center_button' = TRUE
               /\ log' = [log EXCEPT !.held = "connected"]
               /\ timers' = Append(timers, "cache")
               /\ UNCHANGED tree_control
          ELSE /\ onenote_window' = 0
               /\ tree_control' = 0
               /\ center_button' = FALSE
               /\ log' = [log EXCEPT !.held = "none"]
               /\ UNCHANGED <<file, cleared, timers>>
    /\ scanner' = RefreshedScanner(scanner)
    /\ refresh_button' = RefreshedButton(scanner, refresh_button)
    /\ UNCHANGED <<fpc, desktop, list_ready, r_local, r_payload, dialog, list_workers,
                   worker_wrote, runs>>
    /\ FavSessionUnchanged /\ OtherModelsUnchanged

\* ---- select_other_window / _add_section_from_other_window open the dialog,
\* whose __init__ (lines 796-817) starts a WindowListWorker
OpenDialog ==
    /\ fpc = "ready" /\ dialog = "closed" /\ list_workers < MaxListWorkers
    /\ dialog' = "scanning"
    /\ list_workers' = list_workers + 1
    /\ UNCHANGED <<fpc, file, desktop, onenote_window, tree_control, refresh_button, center_button, log,
                   timers, scanner, list_ready, reconnect_pc, r_local, r_payload,
                   worker_wrote, cleared, runs>>
    /\ FavSessionUnchanged /\ OtherModelsUnchanged

\* ---- WindowListWorker.run (lines 787-792) ends; when it is the open dialog's
\* worker, _on_windows_list_ready (lines 819-844) fills the list
ListWorkerDone ==
    /\ list_workers > 0
    /\ list_workers' = list_workers - 1
    /\ \E own \in BOOLEAN :
          /\ own => dialog = "scanning"
          /\ ~own => list_workers > (IF dialog = "scanning" THEN 1 ELSE 0)
          /\ dialog' = IF own THEN "listed" ELSE dialog
    /\ UNCHANGED <<fpc, file, desktop, onenote_window, tree_control, refresh_button, center_button, log,
                   timers, scanner, list_ready, reconnect_pc, r_local, r_payload,
                   worker_wrote, cleared, runs>>
    /\ FavSessionUnchanged /\ OtherModelsUnchanged

\* ---- the dialog is dismissed
DialogCancel ==
    /\ dialog # "closed"
    /\ dialog' = "closed"
    /\ UNCHANGED <<fpc, file, desktop, onenote_window, tree_control, refresh_button, center_button, log,
                   timers, worker_wrote, cleared, runs>>
    /\ WorkersUnchanged /\ FavSessionUnchanged /\ OtherModelsUnchanged

\* the ways _perform_connection can end for a window: it is visible, or
\* is_visible() answers False or raises ElementNotFoundError, or raises
\* something else
ConnectKinds(handle) == IF handle \in desktop THEN {"ok"} ELSE {"not_found", "error"}

\* lines 1556-1580: what _perform_connection leaves and returns; line 1562
\* assigns self.onenote_window before the window is looked at, and no line
\* assigns self.tree_control
_perform_connection(handle, kind) ==
    LET before == [window |-> onenote_window, container |-> tree_control]
        after == [window |-> handle, container |-> tree_control]
    IN  [ret |-> kind = "ok",
         onenote_window |-> handle,
         file |-> IF kind = "ok" THEN save_connection_info(file, handle) ELSE file,
         cleared |-> IF kind = "ok" THEN FALSE ELSE cleared,
         center_button |-> kind = "ok",
         queued |-> IF kind = "ok" THEN <<"cache">> ELSE << >>,
         refreshes |-> kind = "not_found",
         log |-> [log EXCEPT !.held = IF kind = "ok" THEN "connected" ELSE "failed",
                             !.attempt = [made |-> TRUE, ok |-> kind = "ok",
                                          before |-> before, after |-> after]]]

\* the scanner thread and the refresh button after a connection attempt
ScannerAfter(c) == IF c.refreshes THEN RefreshedScanner(scanner) ELSE scanner
ButtonAfter(c) == IF c.refreshes THEN RefreshedButton(scanner, refresh_button) ELSE refresh_button

\* ---- on_window_selected (lines 846-850), then select_other_window, lines
\* 1589-1594, connects to the window picked from the dialog's snapshot
DialogSelect ==
    /\ fpc = "ready" /\ dialog = "listed" /\ Len(timers) < MaxTimers
    /\ dialog' = "closed"
    /\ \E kind \in ConnectKinds(OtherHandle) :
          LET c == _perform_connection(OtherHandle, kind)
          IN  /\ onenote_window' = c.onenote_window
              /\ file' = c.file
              /\ cleared' = c.cleared
              /\ center_button' = c.center_button
              /\ log' = c.log
              /\ timers' = timers \o c.queued
              /\ scanner' = ScannerAfter(c)
              /\ refresh_button' = ButtonAfter(c)
    /\ UNCHANGED <<fpc, desktop, tree_control, list_ready, reconnect_pc, r_local,
                   r_payload, list_workers, worker_wrote, runs>>
    /\ FavSessionUnchanged /\ OtherModelsUnchanged

\* ---- connect_and_center_from_list_item, lines 1582-1587, on a row of the
\* list the last scan filled
ListConnect ==
    /\ fpc = "ready" /\ dialog = "closed" /\ Len(timers) + 2 <= MaxTimers
    /\ \E kind \in ConnectKinds(OneNoteHandle) :
          LET c == _perform_connection(OneNoteHandle, kind)
          IN  /\ onenote_window' = c.onenote_window
              /\ file' = c.file
              /\ cleared' = c.cleared
              /\ center_button' = c.center_button
              /\ log' = c.log
              /\ timers' = timers \o c.queued \o (IF c.ret THEN <<"center">> ELSE << >>)
              /\ scanner' = ScannerAfter(c)
              /\ refresh_button' = ButtonAfter(c)
    /\ UNCHANGED <<fpc, desktop, tree_control, list_ready, reconnect_pc, r_local,
                   r_payload, dialog, list_workers, worker_wrote, runs>>
    /\ FavSessionUnchanged /\ OtherModelsUnchanged

\* the containers a call that is handed tc can work on: tc itself, or, when
\* tc is None, what "tree_control or _find_tree_or_list(onenote_window)" finds
\* (lines 495 and 584)
Worked(tc, win) == IF tc # 0 THEN {tc} ELSE _find_tree_or_list(win)

\* whether a call on container c can succeed: the window c lies in is there
CanSucceed(c) == IF c # 0 /\ c \in desktop THEN BOOLEAN ELSE {FALSE}

\* _pre_action_check, lines 1605-1619, and disconnect_and_clear_info, lines
\* 1596-1603, when the check fails
PreActionCheckFails ==
    /\ onenote_window = 0 \/ onenote_window \notin desktop
    /\ center_button' = FALSE
    /\ IF onenote_window = 0
       THEN UNCHANGED <<onenote_window, tree_control, file, cleared, log>>
       ELSE /\ onenote_window' = 0
            /\ tree_control' = 0
            /\ file' = ClearedFile(file)
            /\ cleared' = TRUE
            /\ log' = [log EXCEPT !.held = "none"]

\* center_selected_item_action, lines 1621-1644
center_selected_item_action ==
    \/ PreActionCheckFails
    \/ /\ onenote_window # 0 /\ onenote_window \in desktop
       /\ \E tc1 \in (IF tree_control # 0 THEN {tree_control}
                      ELSE _find_tree_or_list(onenote_window)) :
          \E c1 \in Worked(tc1, onenote_window) :
          \E success \in CanSucceed(c1) :
             IF success
             THEN /\ tree_control' = tc1
                  /\ log' = [log EXCEPT !.used = [op |-> "center", window |-> onenote_window,
                                                  containers |-> {c1} \ {0}]]
             ELSE \E tc2 \in _find_tree_or_list(onenote_window) :
                  \E c2 \in Worked(tc2, onenote_window) :
                     /\ tree_control' = tc2
                     /\ log' = [log EXCEPT !.used = [op |-> "center", window |-> onenote_window,
                                                     containers |-> {c1, c2} \ {0}]]
       /\ center_button' = TRUE
       /\ UNCHANGED <<onenote_window, file, cleared>>

\* ---- the centering button (line 1349) is clicked
UserAction ==
    /\ fpc = "ready" /\ dialog = "closed"
    /\ center_selected_item_action
    /\ UNCHANGED <<fpc, desktop, refresh_button, timers, dialog, worker_wrote, runs>>
    /\ WorkersUnchanged /\ FavSessionUnchanged /\ OtherModelsUnchanged

\* ---- the timer of line 1587 or of line 1665 fires
TimerCenter ==
    /\ fpc = "ready" /\ timers # << >> /\ Head(timers) = "center"
    /\ timers' = Tail(timers)
    /\ center_selected_item_action
    /\ UNCHANGED <<fpc, desktop, refresh_button, dialog, worker_wrote, runs>>
    /\ WorkersUnchanged /\ FavSessionUnchanged /\ OtherModelsUnchanged

\* ---- _search_and_select_section, lines 1646-1671, for the text typed in
SearchAction ==
    /\ fpc = "ready" /\ dialog = "closed" /\ Len(timers) < MaxTimers
    /\ \/ PreActionCheckFails /\ UNCHANGED timers
       \/ /\ onenote_window # 0 /\ onenote_window \in desktop
          /\ center_button' = TRUE
          /\ \E search_text \in {"", "S"} :
                IF search_text = ""
                THEN UNCHANGED <<tree_control, log, timers>>
                ELSE \E tc \in (IF tree_control # 0 THEN {tree_control}
                                ELSE _find_tree_or_list(onenote_window)) :
                     \E c \in Worked(tc, onenote_window) :
                     \E success \in CanSucceed(c) :
                        /\ tree_control' = tc
                        /\ log' = [log EXCEPT !.used = [op |-> "select",
                                                        window |-> onenote_window,
                                                        containers |-> {c} \ {0}]]
                        /\ timers' = IF success THEN Append(timers, "center") ELSE timers
          /\ UNCHANGED <<onenote_window, file, cleared>>
    /\ UNCHANGED <<fpc, desktop, refresh_button, dialog, worker_wrote, runs>>
    /\ WorkersUnchanged /\ FavSessionUnchanged /\ OtherModelsUnchanged

\* the item names of _activate_favorite_section: the marker "(old) " stands for
\* the prefix of lines 2521 and 2547
OldName == "(old) S"
Restored(name) == IF name = OldName THEN "S" ELSE name
MarkedOld(name) == IF name = "S" THEN OldName ELSE name

\* the fingerprints a favorite can carry: none, or that of a window
TargetSigs == {NoSig, build_window_signature(OneNoteHandle), build_window_signature(OtherHandle)}

SectionPaths == { q \in PathsOf(fav_tree) : ItemAt(fav_tree, q).type = "section" }

\* what _activate_favorite_section does after the window was found: "none",
\* or reading the window's title, class or process raises (line 2507), or the
\* window is closed before _perform_connection looks at it
ActivateFaults == {"none", "info", "vanished"}

\* ---- _activate_favorite_section, lines 2464-2564, on a section item
ActivateFavorite ==
    /\ fpc = "ready" /\ dialog = "closed" /\ Len(timers) + 2 <= MaxTimers
    /\ \E item \in SectionPaths, sg \in TargetSigs :
       \E win \in (IF sg = NoSig THEN {0} ELSE Reacquired(sg)) :
       \E fault \in ActivateFaults, selects \in BOOLEAN :
          IF ~pwa_ready \/ win = 0
          THEN /\ UNCHANGED <<desktop, onenote_window, tree_control, center_button, log,
                              timers, scanner, refresh_button, file, cleared>>
               /\ FavSessionUnchanged
          ELSE IF fault = "info"
          THEN /\ center_button' = TRUE
               /\ UNCHANGED <<desktop, onenote_window, tree_control, log, timers, scanner,
                              refresh_button, file, cleared>>
               /\ FavSessionUnchanged
          ELSE LET c == _perform_connection(win, IF fault = "none" THEN "ok" ELSE "not_found")
               IN  /\ desktop' = IF fault = "none" THEN desktop ELSE desktop \ {win}
                   /\ onenote_window' = c.onenote_window
                   /\ cleared' = c.cleared
                   /\ scanner' = ScannerAfter(c)
                   /\ refresh_button' = ButtonAfter(c)
                   /\ UNCHANGED tree_control
                   /\ center_button' = TRUE
                   /\ IF c.ret /\ selects
                      THEN \E used \in Worked(tree_control, win) :
                           \E ok \in CanSucceed(used) :
                           \E name \in {ItemAt(fav_tree, item).text} :
                           \E renamed \in {IF ok THEN Restored(name) ELSE MarkedOld(name)} :
                              /\ log' = [c.log EXCEPT !.used = [op |-> "select", window |-> win,
                                                               containers |-> {used} \ {0}]]
                              /\ timers' = timers \o c.queued
                                              \o (IF ok THEN <<"scroll">> ELSE << >>)
                              /\ IF renamed # name
                                 THEN /\ Commit(_save_favorites(
                                                ItemEdited([Cur EXCEPT !.file = c.file],
                                                           item, renamed).g))
                                      /\ UNCHANGED last
                                 ELSE file' = c.file /\ FavSessionUnchanged
                      ELSE /\ log' = c.log
                           /\ timers' = timers \o c.queued
                           /\ file' = c.file
                           /\ FavSessionUnchanged
    /\ UNCHANGED <<fpc, list_ready, reconnect_pc, r_local, r_payload, dialog, list_workers,
                   worker_wrote, runs>>
    /\ OtherModelsUnchanged

\* ---- the timer of lines 2528-2533 fires: scroll_selected_item_to_center,
\* lines 577-600, on the window and the container the session holds by then
TimerScroll ==
    /\ fpc = "ready" /\ timers # << >> /\ Head(timers) = "scroll"
    /\ timers' = Tail(timers)
    /\ \E c \in Worked(tree_control, onenote_window) :
          log' = [log EXCEPT !.used = [op |-> "center", window |-> onenote_window,
                                       containers |-> {c} \ {0}]]
    /\ UNCHANGED <<fpc, file, desktop, onenote_window, tree_control, refresh_button,
                   center_button, dialog, worker_wrote, cleared, runs>>
    /\ WorkersUnchanged /\ FavSessionUnchanged /\ OtherModelsUnchanged

\* ---- a window is closed by its owner
WindowGoes ==
    /\ \E h \in desktop : desktop' = desktop \ {h}
    /\ UNCHANGED <<fpc, file, onenote_window, tree_control, refresh_button, center_button, log, timers,
                   dialog, worker_wrote, cleared, runs>>
    /\ WorkersUnchanged /\ FavSessionUnchanged /\ OtherModelsUnchanged

\* ---- a favorites handler of the main window
ConnAddGroup == fpc = "ready" /\ dialog = "closed" /\ SizeAll(fav_tree) < 1 /\ AddGroup

\* ---- closeEvent, lines 1473-1476: _save_window_state writes self.settings,
\* _save_favorites writes it again; the process and its threads end
CloseEvent ==
    /\ fpc = "ready" /\ dialog = "closed"
    /\ fpc' = "closed"
    /\ \E g \in {Cur} : Commit(_save_favorites(save_settings(g)))
    /\ onenote_window' = 0 /\ tree_control' = 0
    /\ refresh_button' = TRUE /\ center_button' = FALSE /\ log' = NoLog
    /\ timers' = << >>
    /\ scanner' = "none" /\ list_ready' = 0
    /\ reconnect_pc' = "none" /\ r_local' = NoLocal /\ r_payload' = NoPayload
    /\ list_workers' = 0
    /\ UNCHANGED <<last, desktop, dialog, worker_wrote, cleared, runs>>
    /\ OtherModelsUnchanged

\* ---- the program is started again
StartAgain ==
    /\ fpc = "closed" /\ runs < MaxRuns
    /\ fpc' = "boot" /\ runs' = runs + 1
    /\ settings' = NoFile /\ active_buffer_name' = "" /\ buffer_list' = NoList
    /\ fav_tree' = << >> /\ clipboard_data' = NoClip /\ buffer_clipboard_data' = NoClip
    /\ UNCHANGED <<file, last, desktop, onenote_window, tree_control, refresh_button, center_button, log,
                   timers, dialog, worker_wrote, cleared>>
    /\ WorkersUnchanged /\ OtherModelsUnchanged

\* the scanning threads and the handlers that start them
NextScan ==
    \/ StartWindow \/ TimerRefresh \/ TimerReconnect \/ TimerCache \/ RefreshClicked
    \/ ScannerEmit \/ ScannerExit \/ OnListReady
    \/ RLoad \/ RLookup \/ RSaveRead \/ RSaveWrite \/ REmit \/ OnReconnectDone
    \/ OpenDialog \/ ListWorkerDone \/ DialogCancel \/ DialogSelect

SpecScan == InitConn /\ [][NextScan]_vars

\* the timers fire, the worker threads run, and the UI thread's event loop runs
\* the handlers of the signals queued to it (the reconnect handler as soon as the
\* timer queue has room for the callback it may add); what the user does is not
\* forced
SpecScanFair ==
    /\ SpecScan
    /\ WF_vars(StartWindow) /\ WF_vars(TimerRefresh) /\ WF_vars(TimerReconnect)
    /\ WF_vars(TimerCache)
    /\ WF_vars(ScannerEmit) /\ WF_vars(ScannerExit) /\ WF_vars(OnListReady)
    /\ WF_vars(RLoad) /\ WF_vars(RLookup) /\ WF_vars(RSaveRead) /\ WF_vars(RSaveWrite)
    /\ WF_vars(REmit) /\ SF_vars(OnReconnectDone)
    /\ WF_vars(ListWorkerDone)

\* the stored fingerprint over two runs of the program, while the window
\* scan of the first timer is still going on
NextSession ==
    \/ StartWindow \/ TimerRefresh \/ TimerReconnect \/ TimerCache
    \/ RLoad \/ RLookup \/ RSaveRead \/ RSaveWrite \/ REmit \/ OnReconnectDone
    \/ UserAction \/ WindowGoes \/ ConnAddGroup \/ CloseEvent \/ StartAgain

SpecSession == InitConn /\ [][NextSession]_vars

\* a session whose favorites hold a section, while the threads the two
\* start-up timers launch are still running: connections made from the list
\* and from a favorite, the centering and search handlers, the timers they
\* queue, and windows closing meanwhile
ConnectFiles ==
    { [connection_signature |-> build_window_signature(OneNoteHandle),
       favorites_buffers |-> << Buf(DefaultBufferName, DocGroupOfSection) >>,
       active_buffer |-> DefaultBufferName] }

InitConnect ==
    /\ ClassParked
    /\ DesktopParked /\ pwa_ready = TRUE /\ CenterParked
    /\ fpc = "boot" /\ file \in ConnectFiles /\ settings = NoFile
    /\ active_buffer_name = "" /\ buffer_list = NoList /\ fav_tree = << >>
    /\ clipboard_data = NoClip /\ buffer_clipboard_data = NoClip
    /\ last = NoOp
    /\ desktop = {OneNoteHandle, OtherHandle}
    /\ onenote_window = 0 /\ tree_control = 0
    /\ refresh_button = TRUE /\ center_button = FALSE /\ log = NoLog
    /\ timers = << >>
    /\ scanner = "none" /\ list_ready = 0
    /\ reconnect_pc = "none" /\ r_local = NoLocal /\ r_payload = NoPayload
    /\ dialog = "closed" /\ list_workers = 0
    /\ worker_wrote = FALSE /\ cleared = FALSE /\ runs = 1

NextConnect ==
    \/ StartWindow \/ TimerRefresh \/ TimerReconnect \/ TimerCache \/ TimerCenter
    \/ TimerScroll
    \/ ListConnect \/ ActivateFavorite \/ UserAction \/ SearchAction \/ WindowGoes

SpecConnect == InitConnect /\ [][NextConnect]_vars

-----------------------------------------------------------------------------
(* is_strict_onenote_window, lines 292-319, applied to one catalog entry *)

StrictTitles ==
    { << >>, <<"OneNote">>, <<"wonnote">>, <<"Notes">>, <<"Notes", "OneNote">> }

StrictClassNames == {ONENOTE_CLASS_NAME, "OMain", "OMainFrame", "Chrome_WidgetWin_1"}

\* (cls or "").lower()
LowerClass(cls) ==
    CASE cls = "ApplicationFrameWindow" -> "applicationframewindow"
      [] cls = "OMain"                  -> "omain"
      [] cls = "OMainFrame"             -> "omainframe"
      [] cls = "Chrome_WidgetWin_1"     -> "chrome_widgetwin_1"
      [] OTHER                          -> cls

\* Python: "omain" in s
HasOMain(s) == s \in {"omain", "omainframe"}

\* Python: "onenoteim.exe" in exe_name
HasOneNoteImExe(exe_name) == exe_name = "onenoteim.exe"

StrictPids == {0} \cup Pids
ExcludedPids == Pids \cup {3}

StrictProcTables ==
    ProcTables
    \cup { [p \in Pids |-> IF p = 1 THEN "C:/Apps/onenoteim.exe" ELSE "C:/Apps/app.exe"] }

StrictNoSelfCheck(w, mp) ==
    LET title_lower == Lower(w.title)
        keyword == HasWord("onenote", title_lower) \/ HasWord("wonnote", title_lower)
        exe_name == BaseNameLower(GetProcessImagePath(w.pid))
    IN  \/ HasOMain(LowerClass(w.class_name))
        \/ w.class_name = ONENOTE_CLASS_NAME /\ keyword
        \/ keyword /\ (HasOneNoteExe(exe_name) \/ HasOneNoteImExe(exe_name))

is_strict_onenote_window(w, mp) ==
    IF w.pid = mp THEN FALSE
    ELSE LET title_lower == Lower(w.title)
             cls == w.class_name
             pid == w.pid
             keyword == HasWord("onenote", title_lower) \/ HasWord("wonnote", title_lower)
         IN  IF HasOMain(LowerClass(cls)) THEN TRUE
             ELSE IF cls = ONENOTE_CLASS_NAME /\ keyword THEN TRUE
             ELSE IF keyword
             THEN LET exe_path == GetProcessImagePath(pid)
                  IN  IF exe_path # ""
                      THEN LET exe_name == BaseNameLower(exe_path)
                           IN  IF HasOneNoteExe(exe_name) \/ HasOneNoteImExe(exe_name)
                               THEN TRUE ELSE FALSE
                      ELSE FALSE
             ELSE FALSE

InitClassify ==
    /\ windows = [h \in {ScoreHandle} |->
                    [state |-> "visible", title |-> << >>,
                     class_name |-> ONENOTE_CLASS_NAME, pid |-> 1]]
    /\ sig = [handle |-> 0, pid |-> 0, class_name |-> "", title |-> << >>, exe_name |-> ""]
    /\ ReacqParked /\ CenterParked /\ FavOff /\ ConnOff /\ SelParked
    /\ procImage \in StrictProcTables
    /\ cand \in [title : StrictTitles, class_name : StrictClassNames, pid : StrictPids]
    /\ my_pid \in ExcludedPids
    /\ strict = NotCalled

Classify ==
    /\ ~strict.called
    /\ strict' = [called |-> TRUE, value |-> is_strict_onenote_window(cand, my_pid)]
    /\ UNCHANGED <<cand, my_pid, reacqVars, centerVars, favVars, connVars, selVars>>

NextClassify == Classify

SpecClassify == InitClassify /\ [][NextClassify]_vars

-----------------------------------------------------------------------------
(* The section pane: get_selected_tree_item_fast and select_section_by_text.

   The pane is a tree or list control with at most MaxItems items, numbered in
   document order from 1 (0 is None).  An item has a control type, a display
   text, and what select() and click_input() do on it.  The pane has one
   selected item at most.  A text is a sequence of characters. *)
MaxItems == 2

Unreadable == <<"#raises">>          \* window_text() raises

LowerChar(ch) ==
    CASE ch = "N" -> "n"
      [] ch = "B" -> "b"
      [] OTHER    -> ch

\* str.split(): the words of t, read from position i on, "word" being the one begun
RECURSIVE SplitFrom(_, _, _)
SplitFrom(t, i, word) ==
    IF i > Len(t) THEN (IF word = << >> THEN << >> ELSE << word >>)
    ELSE IF t[i] = " "
         THEN (IF word = << >> THEN SplitFrom(t, i + 1, << >>)
               ELSE << word >> \o SplitFrom(t, i + 1, << >>))
         ELSE SplitFrom(t, i + 1, Append(word, t[i]))

\* " ".join(words)
RECURSIVE JoinWords(_)
JoinWords(words) ==
    IF words = << >> THEN << >>
    ELSE IF Len(words) = 1 THEN words[1]
    ELSE words[1] \o << " " >> \o JoinWords(Tail(words))

NormalizeKeepsCase(t) == JoinWords(SplitFrom(t, 1, << >>))

\* line 477: " ".join((s or "").strip().split()).lower()
_normalize_text(t) ==
    LET joined == JoinWords(SplitFrom(t, 1, << >>))
    IN  [i \in 1..Len(joined) |-> LowerChar(joined[i])]

PaneTexts == { <<"N", " ", " ", "b">>, <<"n", "b">>, Unreadable }
Queries == { <<" ", "n", " ", "B">>, <<"n", "b">>, <<"b">> }

ItemTypes == {"TreeItem", "ListItem"}

\* select() works; or it raises and click_input() selects the item, lands
\* without selecting it ("misses"), or raises too
ItemActs ==
    { a \in [select : {"ok", "raises"}, click : {"ok", "misses", "raises"}] :
        a.select = "ok" => a.click = "ok" }

Items == [type : ItemTypes, text : PaneTexts, act : ItemActs]

RECURSIVE SeqsUpTo(_, _)
SeqsUpTo(S, n) ==
    IF n = 0 THEN {<< >>}
    ELSE LET shorter == SeqsUpTo(S, n - 1)
         IN  shorter \cup {Append(q, x) : q \in {r \in shorter : Len(r) = n - 1}, x \in S}

(* What the calls of the selection lookup do on a pane: get_selection and
   iface_selection may be missing, may raise or may work; children() and
   descendants(control_type) may raise; "top" are the items that are immediate
   children of the pane, and is_selected() raises on the items of "unsure". *)
PaneLookups ==
    [get_selection : {"absent", "raises", "ok"},
     iface_selection : {"absent", "raises", "ok"},
     children : {"raises", "ok"},
     descendants : [ItemTypes -> {"raises", "ok"}],
     top : SUBSET (1..MaxItems),
     unsure : SUBSET (1..MaxItems)]

Indices(p) == 1..Len(p.items)

Least(S) == CHOOSE x \in S : \A y \in S : x <= y

\* "for item in ...: if item.is_selected(): return item", an exception of
\* is_selected() passing to the next item (lines 438-443, 448-453)
ScanSelected(p, S) ==
    LET hits == {i \in S : i \notin p.look.unsure /\ i = p.selected}
    IN  IF hits = {} THEN 0 ELSE Least(hits)

\* one tier of get_selected_tree_item_fast: [outcome, node]
TierOutcome(p, tier) ==
    CASE tier = "get_selection" ->                                  \* lines 418-424
           IF p.look.get_selection = "absent" THEN [outcome |-> "absent", node |-> 0]
           ELSE IF p.look.get_selection = "raises" THEN [outcome |-> "threw", node |-> 0]
           ELSE IF p.selected = 0 THEN [outcome |-> "empty", node |-> 0]
           ELSE [outcome |-> "found", node |-> p.selected]
      [] tier = "iface_selection" ->                                \* lines 426-435
           IF p.look.iface_selection = "absent" THEN [outcome |-> "absent", node |-> 0]
           ELSE IF p.look.iface_selection = "raises" THEN [outcome |-> "threw", node |-> 0]
           ELSE IF p.selected = 0 THEN [outcome |-> "empty", node |-> 0]
           ELSE [outcome |-> "found", node |-> p.selected]
      [] tier = "children" ->                                       \* lines 437-445
           IF p.look.children = "raises" THEN [outcome |-> "threw", node |-> 0]
           ELSE LET item == ScanSelected(p, p.look.top \cap Indices(p))
                IN  IF item = 0 THEN [outcome |-> "empty", node |-> 0]
                    ELSE [outcome |-> "found", node |-> item]
      [] tier = "descendants" ->                                    \* lines 447-455
           IF p.look.descendants["TreeItem"] = "raises"
           THEN [outcome |-> "threw", node |-> 0]
           ELSE LET item == ScanSelected(p, {i \in Indices(p) :
                                                p.items[i].type = "TreeItem"})
                IN  IF item = 0 THEN [outcome |-> "empty", node |-> 0]
                    ELSE [outcome |-> "found", node |-> item]

LookupTiers == <<"get_selection", "iface_selection", "children", "descendants">>

RECURSIVE TryTiersRaising(_, _)
TryTiersRaising(p, tiers) ==
    IF tiers = << >> THEN [ret |-> 0, raised |-> FALSE, trail |-> << >>]
    ELSE LET o == TierOutcome(p, Head(tiers))
             here == << [tier |-> Head(tiers), outcome |-> o.outcome] >>
         IN  IF o.outcome = "found"
             THEN [ret |-> o.node, raised |-> FALSE, trail |-> here]
             ELSE IF o.outcome = "threw"
             THEN [ret |-> 0, raised |-> TRUE, trail |-> here]
             ELSE LET rest == TryTiersRaising(p, Tail(tiers))
                  IN  [ret |-> rest.ret, raised |-> rest.raised,
                       trail |-> here \o rest.trail]

\* lines 418-457: the try blocks in turn; [ret, raised, trail], the trail being
\* the tiers entered and what each came to
RECURSIVE TryTiers(_, _)
TryTiers(p, tiers) ==
    IF tiers = << >> THEN [ret |-> 0, raised |-> FALSE, trail |-> << >>]   \* line 457
    ELSE LET o == TierOutcome(p, Head(tiers))
             here == << [tier |-> Head(tiers), outcome |-> o.outcome] >>
         IN  IF o.outcome = "found"
             THEN [ret |-> o.node, raised |-> FALSE, trail |-> here]
             ELSE LET rest == TryTiers(p, Tail(tiers))
                  IN  [ret |-> rest.ret, raised |-> rest.raised,
                       trail |-> here \o rest.trail]

\* lines 413-457
get_selected_tree_item_fast(ready, p) ==
    IF ~ready THEN [ret |-> 0, raised |-> FALSE, trail |-> << >>]   \* lines 415-416
    ELSE TryTiers(p, LookupTiers)

NoHit == [ret |-> FALSE, node |-> 0, by |-> "", failed |-> 0]

ScanIgnoresClickFailure(p, t, target_norm) ==
    IF p.look.descendants[t] = "raises" THEN NoHit
    ELSE LET hits == {i \in Indices(p) : /\ p.items[i].type = t
                                         /\ p.items[i].text # Unreadable
                                         /\ _normalize_text(p.items[i].text) = target_norm}
         IN  IF hits = {} THEN NoHit
             ELSE LET itm == Least(hits)
                      act == p.items[itm].act
                  IN  IF act.select = "ok"
                      THEN [ret |-> TRUE, node |-> itm, by |-> "select", failed |-> 0]
                      ELSE [ret |-> TRUE, node |-> itm, by |-> "click", failed |-> 0]

\* lines 493-511, for one control type: [ret, node, by, failed]; "failed" is the
\* matched item on which select() and click_input() both raised
_scan(p, t, target_norm) ==
    IF p.look.descendants[t] = "raises" THEN NoHit                  \* lines 509-510
    ELSE LET hits == {i \in Indices(p) : /\ p.items[i].type = t
                                         /\ p.items[i].text # Unreadable  \* 507-508
                                         /\ _normalize_text(p.items[i].text) = target_norm}
         IN  IF hits = {} THEN NoHit                                \* line 511
             ELSE LET itm == Least(hits)
                      act == p.items[itm].act
                  IN  IF act.select = "ok"
                      THEN [ret |-> TRUE, node |-> itm, by |-> "select", failed |-> 0]
                      ELSE IF act.click # "raises"
                      THEN [ret |-> TRUE, node |-> itm, by |-> "click", failed |-> 0]
                      ELSE [ret |-> FALSE, node |-> 0, by |-> "", failed |-> itm]

NoCall == [called |-> FALSE, element |-> 0]

(* lines 480-520: [ret, node, by, failed, pane, centered].  "node" is the item
   that was selected or clicked, "failed" the matched items on which both
   select() and click_input() raised, "pane" the pane afterwards and "centered"
   the call of _center_element_in_view, whose body is the centering routine
   modelled above. *)
select_section_by_text(ready, p, text) ==
    LET nothing == [ret |-> FALSE, node |-> 0, by |-> "", failed |-> {},
                    pane |-> p, centered |-> NoCall]
    IN  IF ~ready THEN nothing                                      \* lines 484-485
        ELSE IF ~p.found THEN nothing                               \* lines 487-489
        ELSE LET target_norm == _normalize_text(text)
                 tree == _scan(p, "TreeItem", target_norm)
                 list == _scan(p, "ListItem", target_norm)
                 hit == IF tree.ret THEN tree ELSE list             \* line 513
                 failed == {tree.failed, IF tree.ret THEN 0 ELSE list.failed} \ {0}
             IN  IF hit.ret
                 THEN LET after == IF hit.by = "click"
                                      /\ p.items[hit.node].act.click = "misses"
                                   THEN p
                                   ELSE [p EXCEPT !.selected = hit.node]
                          element == get_selected_tree_item_fast(ready, after).ret
                      IN  [ret |-> TRUE, node |-> hit.node, by |-> hit.by,
                           failed |-> failed, pane |-> after,
                           centered |-> [called |-> TRUE, element |-> element]]
                 ELSE [nothing EXCEPT !.failed = failed]

\* the panes a lookup is made on: every behaviour of the lookup's calls, on
\* items that differ in control type
LookupItems == {it \in Items : it.text = <<"n", "b">> /\ it.act.select = "ok"}

LookupPanes ==
    { p \in [found : {TRUE}, items : SeqsUpTo(LookupItems, MaxItems),
             selected : 0..MaxItems,
             look : {l \in PaneLookups : l.descendants["ListItem"] = "ok"}] :
        p.selected <= Len(p.items) }

\* the panes a section is selected on: every kind of item, and a lookup whose
\* scans see every item
SelectLookups ==
    { l \in PaneLookups : /\ l.top = 1..MaxItems /\ l.unsure = {}
                          /\ l.iface_selection = "absent"
                          /\ l.get_selection \in {"absent", "ok"}
                          /\ l.descendants["ListItem"] = "ok" }

SelectPanes ==
    { p \in [found : {TRUE}, items : SeqsUpTo(Items, MaxItems), selected : 0..MaxItems,
             look : SelectLookups] : p.selected <= Len(p.items) }

PaneOthersParked ==
    /\ DesktopParked /\ pwa_ready \in BOOLEAN
    /\ CenterParked /\ FavOff /\ ConnOff /\ ClassOff

PaneUnchanged == UNCHANGED <<reacqVars, centerVars, favVars, connVars, classVars>>

InitLookup ==
    /\ PaneOthersParked
    /\ pane \in LookupPanes
    /\ picked = NotPicked

LookupSelected ==
    /\ picked = NotPicked
    /\ LET r == get_selected_tree_item_fast(pwa_ready, pane)
       IN  picked' = [op |-> "get_selected_tree_item_fast", ret |-> r.ret,
                      raised |-> r.raised, trail |-> r.trail]
    /\ UNCHANGED pane
    /\ PaneUnchanged

NextLookup == LookupSelected

SpecLookup == InitLookup /\ [][NextLookup]_vars

InitSelect ==
    /\ PaneOthersParked
    /\ pane \in SelectPanes \cup {NoPane}
    /\ picked = NotPicked

SelectSectionByText ==
    /\ picked = NotPicked
    /\ \E text \in Queries :
         LET r == select_section_by_text(pwa_ready, pane, text)
         IN  /\ picked' = [op |-> "select_section_by_text", text |-> text,
                           before |-> pane, ret |-> r.ret, node |-> r.node,
                           by |-> r.by, failed |-> r.failed, centered |-> r.centered]
             /\ pane' = r.pane
    /\ PaneUnchanged

NextSelect == SelectSectionByText

SpecSelect == InitSelect /\ [][NextSelect]_vars

-----------------------------------------------------------------------------
(* Properties of the favorites tree and of the buffers. *)

IdAt(items, p) == ItemAt(items, p).payload.id
HasId(items, id) == \E p \in PathsOf(items) : IdAt(items, p) = id
PathOfId(items, id) == CHOOSE p \in PathsOf(items) : IdAt(items, p) = id
\* the identifier of the parent of the item at p (0: the invisible root)
ParentIdOf(items, p) == IF Len(p) = 1 THEN 0 ELSE IdAt(items, ParentPath(p))

SectionOnSection(d) ==
    d.source_type = "section" /\ d.kind = "on" /\ d.target_type = "section"

(* C5: dropping a section onto another section, at any depth, never nests it:
   after the drop the dropped section is the target's next sibling, under the
   parent the target had, and no item is lost. *)
C5_SectionDropBecomesSibling ==
    [][ (last'.op = "DropItem" /\ SectionOnSection(last'.detail)) =>
          LET sid == last'.detail.source_id
              tid == last'.detail.target_id
          IN  /\ HasId(fav_tree', sid) /\ HasId(fav_tree', tid)
              /\ LET p == PathOfId(fav_tree', sid)
                     q == PathOfId(fav_tree', tid)
                 IN  /\ ParentPath(p) = ParentPath(q)
                     /\ LastIndex(p) = LastIndex(q) + 1
                     /\ ParentIdOf(fav_tree', q)
                          = ParentIdOf(fav_tree, PathOfId(fav_tree, tid))
              /\ SizeAll(fav_tree') = SizeAll(fav_tree) ]_vars

\* a section was dropped onto a section that lies inside a group
C5_Witness ==
    /\ last.op = "DropItem" /\ SectionOnSection(last.detail)
    /\ Len(PathOfId(fav_tree, last.detail.target_id)) >= 2
    /\ Len(PathOfId(fav_tree, last.detail.source_id)) >= 2

(* C6: a section never has children, whatever the handlers did to the tree. *)
C6_SectionsAreLeaves ==
    Ready => \A p \in PathsOf(fav_tree) :
                ItemAt(fav_tree, p).type = "section" => ItemAt(fav_tree, p).children = << >>

Kids(node) == IF "children" \in DOMAIN node THEN node.children ELSE << >>

RECURSIVE SameShape(_, _)
\* the same tree of types and names
SameShape(a, b) ==
    /\ a.type = b.type /\ a.name = b.name
    /\ Len(Kids(a)) = Len(Kids(b))
    /\ \A i \in 1..Len(Kids(a)) : SameShape(Kids(a)[i], Kids(b)[i])

(* C7: copying an item records its subtree, and pasting adds a new subtree of the
   same shape, node types and names as the copied one, in which every
   identifier is new: used nowhere before the paste, and by one pasted node only. *)
C7_PasteCopiesWithFreshIds ==
    [][ /\ (last'.op = "CopyFavoriteItem" /\ last'.detail.source_id # 0) =>
              /\ HasId(fav_tree, last'.detail.source_id)
              /\ clipboard_data' = _serialize_fav_item(
                     ItemAt(fav_tree, PathOfId(fav_tree, last'.detail.source_id)), NextId)
              /\ fav_tree' = fav_tree
        /\ (last'.op = "PasteFavoriteItem" /\ last'.notice = "") =>
              /\ HasId(fav_tree', last'.detail.source_id)
              /\ LET pasted == _serialize_fav_item(
                         ItemAt(fav_tree', PathOfId(fav_tree', last'.detail.source_id)),
                         NextId')
                 IN  /\ SameShape(pasted, clipboard_data)
                     /\ IdsOf(<<pasted>>) \cap UsedIds = {}
                     /\ Cardinality(IdsOf(<<pasted>>)) = Size(pasted)
              /\ SizeAll(fav_tree') = SizeAll(fav_tree) + Size(clipboard_data) ]_vars

\* a group holding a section was copied and pasted
C7_Witness ==
    /\ last.op = "PasteFavoriteItem" /\ last.notice = ""
    /\ clipboard_data # NoClip /\ Size(clipboard_data) = 2
    /\ HasId(fav_tree, last.detail.source_id)
    /\ LET new_item == ItemAt(fav_tree, PathOfId(fav_tree, last.detail.source_id))
       IN  /\ new_item.type = "group" /\ Len(new_item.children) = 1
           /\ new_item.payload.id # clipboard_data.id

(* C8: the buffer collection is never empty, and deleting when a single buffer
   is left is refused and changes nothing. *)
C8_NeverEmpty ==
    /\ [](Ready => /\ Len(settings.favorites_buffers) >= 1
                   /\ Len(buffer_list.items) >= 1
                   /\ Len(file.favorites_buffers) >= 1)
    /\ [][ (last'.op = "DeleteBuffer" /\ Len(settings.favorites_buffers) = 1) =>
              /\ last'.notice = "delete_refused"
              /\ UNCHANGED <<settings, file, active_buffer_name, buffer_list, fav_tree>> ]_vars

\* deletion was asked for and refused on the only buffer, which holds favorites
C8_Witness ==
    /\ last.op = "DeleteBuffer" /\ last.notice = "delete_refused"
    /\ Len(settings.favorites_buffers) = 1
    /\ settings.favorites_buffers[1].data # << >>

Legacy(f) == "favorites" \in DOMAIN f /\ "favorites_buffers" \notin DOMAIN f

(* C9: a settings file with a flat favorites list and no buffer collection loads
   as exactly one buffer, named with the default name, holding that list as it
   was and marked active, and without the legacy key; the window then starts
   on that buffer and the file it writes has no legacy key either. *)
C9_LegacyMigration ==
    /\ []((fpc = "loaded" /\ Legacy(file)) =>
            /\ settings.favorites_buffers
                 = << [name |-> DefaultBufferName, data |-> file.favorites] >>
            /\ settings.active_buffer = DefaultBufferName
            /\ "favorites" \notin DOMAIN settings)
    /\ [][ (fpc = "loaded" /\ fpc' = "ready" /\ Legacy(file)) =>
              /\ Keys(settings'.favorites_buffers) = <<DefaultBufferName>>
              /\ active_buffer_name' = DefaultBufferName
              /\ settings'.active_buffer = DefaultBufferName
              /\ file' = settings'
              /\ "favorites" \notin DOMAIN file' ]_vars

\* a legacy file with favorites, whose own "active_buffer" was overridden
C9_Witness ==
    /\ fpc = "loaded" /\ Legacy(file) /\ file.favorites # << >>
    /\ "active_buffer" \in DOMAIN file /\ file.active_buffer # DefaultBufferName
    /\ settings.active_buffer = DefaultBufferName

(* C10: once the window is up, the active buffer names an existing buffer, in the
   session and in the file alike, and the tree shown is that buffer's content. *)
C10_ActiveBufferExists ==
    Ready =>
        /\ active_buffer_name # ""
        /\ HasKey(settings.favorites_buffers, active_buffer_name)
        /\ settings.active_buffer = active_buffer_name
        /\ HasKey(file.favorites_buffers, file.active_buffer)
        /\ file.active_buffer = active_buffer_name
        /\ SerializeTree(fav_tree, NextId)
             = GetData(settings.favorites_buffers, active_buffer_name, << >>)
        /\ SerializeTree(fav_tree, NextId)
             = GetData(file.favorites_buffers, active_buffer_name, << >>)

\* the active buffer was deleted and the window moved to a buffer with favorites
C10_Witness ==
    /\ Ready /\ last.op = "DeleteBuffer" /\ last.notice = ""
    /\ Len(settings.favorites_buffers) = 2
    /\ fav_tree # << >>
    /\ active_buffer_name = settings.favorites_buffers[1].name


MutationOps ==
    {"AddGroup", "AddSection", "EditItem", "DeleteFavoriteItem", "MoveItemUp",
     "MoveItemDown", "PasteFavoriteItem", "DropItem"}

(* C11: every handler that changes the favorites tree (add group, add section,
   rename, delete, move up or down, paste, drag-and-drop) leaves the active
   buffer's entry equal to the serialization of the tree shown, the settings
   written to the file, and the names, order and contents of all other buffers
   as they were. *)
C11_MutationSavesActiveBuffer ==
    [][ (last'.op \in MutationOps /\ fav_tree' # fav_tree) =>
          /\ active_buffer_name' = active_buffer_name
          /\ GetData(BuffersOf(settings'), active_buffer_name', << >>)
               = SerializeTree(fav_tree', NextId')
          /\ file' = settings'
          /\ Keys(BuffersOf(settings')) = Keys(BuffersOf(settings))
          /\ \A i \in 1..Len(BuffersOf(settings)) :
                BuffersOf(settings)[i].name # active_buffer_name =>
                    BuffersOf(settings')[i] = BuffersOf(settings)[i] ]_vars

\* a paste changed the tree while another buffer holds favorites of its own
C11_Witness ==
    /\ last.op = "PasteFavoriteItem" /\ last.notice = ""
    /\ Len(fav_tree) >= 2
    /\ \E i \in 1..Len(BuffersOf(settings)) :
          /\ BuffersOf(settings)[i].name # active_buffer_name
          /\ BuffersOf(settings)[i].data # << >>
    /\ file = settings

-----------------------------------------------------------------------------
(* Properties of the connection and of the worker threads. *)

\* window-catalog scans going on: the scanner thread of the main window and
\* the window listers started by the selection dialog
ScansInFlight == (IF scanner = "running" THEN 1 ELSE 0) + list_workers

\* reacquisitions going on in the reconnect worker
ReacquisitionsInFlight == IF reconnect_pc \in {"start", "lookup", "save_read", "save_write"} THEN 1 ELSE 0

(* C12: at any time at most one window-catalog scan and at most one
   reacquisition are going on, whatever the order of refresh requests, the
   start-up reconnect, its completion handler and the selection dialog. *)
C12_OneScanInFlight ==
    /\ ScansInFlight <= 1
    /\ ReacquisitionsInFlight <= 1

(* C13: the settings file is written by the UI thread only: no worker thread
   writes it, and so the favorites the UI thread saved are never replaced in
   the file by what a worker had read earlier. *)
C13_SingleWriter ==
    /\ ~worker_wrote
    /\ fpc = "ready" => BuffersOf(file) = BuffersOf(settings)

\* a user action found the connected window gone
StaleHandleStep ==
    /\ onenote_window # 0 /\ onenote_window \notin desktop
    /\ fpc = "ready" /\ fpc' = "ready" /\ reconnect_pc' = reconnect_pc
    /\ onenote_window' # onenote_window

(* C14: when a user action finds the connected window gone, the session drops
   the window and the cached container and clears the fingerprint in the
   settings file; and the next reconnect attempt (that of the next start of
   the program) finds no stored fingerprint, unless a connection was made in
   between. *)
C14_StaleHandleClearsFingerprint ==
    [][ /\ StaleHandleStep =>
              /\ onenote_window' = 0 /\ tree_control' = 0
              /\ SigOf(load_settings(file')) = NoSig
        /\ (reconnect_pc = "start" /\ reconnect_pc' # "start" /\ cleared) =>
              r_local'.sig = NoSig ]_vars

-----------------------------------------------------------------------------
(* Properties of the centering loop. *)

\* a correction round was run and the routine returned right after it
ReturnedAfterRound == cpc = "loop" /\ round' = round + 1 /\ cpc' = "done"

(* C15: an exception raised by a measurement or a scroll inside a correction
   round ends that round only: unless it was the third round, the loop goes
   on to the next one (where it stops if the offset is within tolerance). *)
C15_ExceptionEndsRoundOnly ==
    [][ ReturnedAfterRound => round' = MaxRounds ]_vars

Running == cpc \in {"settle", "measure", "loop"}

(* C16: centerNode is bounded and terminates, whatever the rectangles measured:
   at most 3 correction rounds, each with a step count of at most 5 (at most
   that many pattern increments and a wheel fallback of at most that
   magnitude), a settle wait of at most timeout / interval polls; and an
   invocation under way always returns. *)
C16_CenterIsBounded ==
    /\ [](/\ round <= MaxRounds
          /\ polls <= SettlePolls
          /\ lastRound.repeats <= MaxStep
          /\ lastRound.applied <= lastRound.repeats
          /\ Abs(lastRound.wheel) <= MaxStep
          /\ nPattern <= MaxRounds * MaxStep
          /\ nWheel <= MaxRounds)
    /\ [](Running => <>(cpc = "done"))

\* the settle wait ran out of time, and later all three rounds were run, the
\* last one with the largest step count
C16_Witness ==
    /\ cpc = "done" /\ round = MaxRounds /\ ~Within(offset)
    /\ lastRound.repeats = MaxStep /\ nPattern + nWheel >= MaxRounds

-----------------------------------------------------------------------------
(* Properties of the window classifier. *)

\* the tiers, on the entry as the catalog gives it
TierLegacy == cand.class_name \in {"OMain", "OMainFrame"}
TitleHasKeyword == \E i \in 1..Len(cand.title) : cand.title[i] \in {"OneNote", "wonnote"}
TierModern == cand.class_name = "ApplicationFrameWindow" /\ TitleHasKeyword
TierExecutable ==
    /\ TitleHasKeyword
    /\ cand.pid # 0
    /\ procImage[cand.pid] \in {"C:/Office/ONENOTE.EXE", "C:/Apps/onenoteim.exe"}

(* C17: the classifier answers true exactly when the window's process is not the
   excluded one and one tier holds: the class name contains the legacy
   marker; or it is the modern frame class and the title has a keyword; or
   the title has a keyword and the executable's basename contains one of the
   two known names.  A window of the excluded process is never accepted. *)
C17_StrictClassify ==
    strict.called =>
        /\ strict.value = (cand.pid # my_pid /\ (TierLegacy \/ TierModern \/ TierExecutable))
        /\ cand.pid = my_pid => strict.value = FALSE

\* accepted by the executable tier alone: neither class matches
C17_Witness ==
    /\ strict.called /\ strict.value /\ ~TierLegacy /\ ~TierModern /\ TierExecutable
    /\ procImage[cand.pid] = "C:/Apps/onenoteim.exe"

-----------------------------------------------------------------------------
(* Properties of the favorites document. *)

RECURSIVE WellFormedDoc(_)
\* every node carries a non-empty identifier, and a children key only where
\* there is a child
WellFormedDoc(list) ==
    \A i \in 1..Len(list) :
        /\ "id" \in DOMAIN list[i] /\ list[i].id # EmptyId
        /\ "type" \in DOMAIN list[i] /\ "name" \in DOMAIN list[i]
        /\ (list[i].type = "section" => "target" \in DOMAIN list[i])
        /\ ("children" \in DOMAIN list[i] =>
                list[i].children # << >> /\ WellFormedDoc(list[i].children))

\* the document of the active buffer as the file holds it
WrittenDoc == GetData(BuffersOf(file), active_buffer_name, << >>)

\* the document start-up finds in the settings it has read
InputDoc == GetData(BuffersOf(settings), ActiveOf(settings), << >>)

(* C18: the document written for a tree is well formed (a non-empty identifier
   on every node, no children key on a node without children); reading a well
   formed document and writing it again gives the same document, with the same
   order, types, identifiers, names and targets; and reading the document of a
   tree whose items all have identifiers gives that tree back. *)
C18_SerializationRoundTrip ==
    /\ [](Ready =>
            /\ WellFormedDoc(WrittenDoc)
            /\ SerializeTree(AppendNodes(WrittenDoc, NextId), NextId) = WrittenDoc
            /\ LET doc == SerializeTree(fav_tree, NextId)
                   nid == NextId + EmptyIdsAll(fav_tree)
               IN  /\ WellFormedDoc(doc)
                   /\ SerializeTree(AppendNodes(doc, nid), nid) = doc
                   /\ SizeAll(doc) = SizeAll(fav_tree)
                   /\ (EmptyIdsAll(fav_tree) = 0 =>
                           /\ AppendNodes(doc, NextId) = fav_tree
                           /\ doc = WrittenDoc))
    /\ [][ (fpc = "loaded" /\ fpc' = "ready") =>
              /\ SizeAll(WrittenDoc') = SizeAll(InputDoc)
              /\ (WellFormedDoc(InputDoc) => WrittenDoc' = InputDoc) ]_vars

\* a tree read from a document with empty identifiers was written again after
\* a move, and holds a section with a child
C18_Witness ==
    /\ Ready /\ last.op = "MoveItemDown" /\ last.notice = ""
    /\ EmptyIdsAll(fav_tree) = 2
    /\ \E i \in 1..Len(WrittenDoc) :
          WrittenDoc[i].type = "section" /\ "children" \in DOMAIN WrittenDoc[i]

-----------------------------------------------------------------------------
(* Properties of the buffer names. *)

\* the name typed is, once stripped, the name of a buffer of the collection
NamePresent(text) ==
    /\ text # "" /\ Strip(text) # ""
    /\ HasKey(BuffersOf(settings), Strip(text))

\* the part of the window a buffer handler may write
FavState ==
    <<settings, file, active_buffer_name, buffer_list, fav_tree, clipboard_data,
      buffer_clipboard_data>>

(* C19: adding a buffer under a name the collection already holds, and renaming
   the selected buffer to such a name, are refused: the warning is shown (for a
   rename, unless the name is the selected buffer's own, which is dropped
   without a word), and the names, order and contents of the buffers, the file
   and the active buffer stay as they were. *)
C19_DuplicateNameRefused ==
    /\ [](Ready =>
            \A text \in BufferNameInputs :
                NamePresent(text) =>
                    /\ _add_buffer(Cur, text) = R(Cur, "duplicate_name")
                    /\ (buffer_list.row # 0 =>
                           _rename_buffer(Cur, text)
                             = R(Cur, IF Strip(text) = buffer_list.items[buffer_list.row]
                                      THEN "" ELSE "duplicate_name")))
    /\ [][ (last'.op \in {"AddBuffer", "RenameBuffer"}
            /\ last'.notice = "duplicate_name") => UNCHANGED FavState ]_vars

\* a rename to the name of another buffer was refused
C19_Witness ==
    /\ Ready /\ last.op = "RenameBuffer" /\ last.notice = "duplicate_name"
    /\ Len(BuffersOf(settings)) >= 2
    /\ buffer_list.row # 0 /\ buffer_list.items[buffer_list.row] # "B1"
    /\ NamePresent(" B1")

-----------------------------------------------------------------------------
(* Properties of the reconnect attempt. *)

\* the worker has its outcome, and it is a failure with a fingerprint stored
FailedWithFingerprint ==
    /\ reconnect_pc \in {"emit", "queued"}
    /\ r_local.sig # NoSig
    /\ ~r_payload.ok

(* C20: a reconnect attempt that finds a fingerprint stored and gets no
   acceptable window, the lookup raising included, reports the lookup-failed
   status, never the status reported when no fingerprint is stored. *)
C20_LookupFailureIsDistinct ==
    FailedWithFingerprint =>
        /\ r_payload.status = StatusReconnectFailed
        /\ r_payload.status # StatusNotConnected

-----------------------------------------------------------------------------
(* Properties of the catalog scan. *)

\* the scan of the call is over
Scanned == rpc \in {"resolve", "done"} /\ candidates.taken

\* the score line 695 gave the i-th entry of the snapshot
ScoreAt(i) == ScoreCandidateDict(candidates.list[i], sig)

\* the first position of the snapshot whose entry attains the maximum score
FirstMax ==
    CHOOSE i \in 1..Len(candidates.list) :
        /\ \A j \in 1..Len(candidates.list) : ScoreAt(j) <= ScoreAt(i)
        /\ \A j \in 1..(i - 1) : ScoreAt(j) < ScoreAt(i)

(* C21 (as stated): after a scan every entry of the snapshot was scored and the
   best entry is the first one, in snapshot order, that attains the maximum
   score. *)
C21_FirstMaximumSelected ==
    (Scanned /\ candidates.list # << >>) =>
        /\ nscored = Len(candidates.list)
        /\ best = candidates.list[FirstMax].handle
        /\ best_score = ScoreAt(FirstMax)

(* C21 (amended): after a scan every entry of the snapshot was scored; when
   some entry scores above -1, the score of an entry whose scoring faulted, the
   best entry is the first one, in snapshot order, that attains the maximum
   score; when none does, no entry is selected. *)
C21_FirstMaximumAboveFault ==
    (Scanned /\ candidates.list # << >>) =>
        /\ nscored = Len(candidates.list)
        /\ IF ScoreAt(FirstMax) > -1
           THEN best = candidates.list[FirstMax].handle /\ best_score = ScoreAt(FirstMax)
           ELSE best = 0 /\ best_score = -1

\* two entries tie at the maximum and the first of the snapshot is the best
C21_Witness ==
    /\ Scanned /\ Len(candidates.list) = 2
    /\ ScoreAt(1) = ScoreAt(2) /\ ScoreAt(1) >= AcceptThreshold
    /\ best = candidates.list[1].handle
    /\ candidates.list[1].handle = 2

\* the best entry of the scan is accepted and its window cannot be had: the
\* lookup by handle raises (the window is gone) or the window is not visible
AcceptedButLost ==
    /\ rpc = "resolve" /\ Accepts(best, best_score) /\ ~LookupVisible(best)

(* C22: when the best entry is accepted and looking its handle up fails or
   gives a window that is not visible, the step that looks it up ends the call
   and returns none, and a call that has returned takes no further step;
   whatever the scan, the call returns the best entry's window or none, never
   the window of a lower-ranked entry. *)
C22_NoRetryNoFallback ==
    /\ [][(AcceptedButLost /\ rpc' # rpc) => (rpc' = "done" /\ result' = 0)]_vars
    /\ []((rpc = "done" /\ candidates.taken) => result \in {0, best})
    /\ [][rpc = "done" => (rpc' = "done" /\ result' = result)]_vars

\* the best entry's window went away after the scan while another entry at or
\* above the threshold was still there to be had
C22_Witness ==
    /\ rpc = "done" /\ candidates.taken /\ result = 0
    /\ Accepts(best, best_score) /\ ~LookupVisible(best)
    /\ \E i \in 1..Len(candidates.list) :
          /\ candidates.list[i].handle # best
          /\ ScoreCandidateDict(candidates.list[i], sig) >= AcceptThreshold
          /\ LookupVisible(candidates.list[i].handle)

-----------------------------------------------------------------------------
(* Properties of the score. *)

\* the weight the score gives a condition
Weight(n) ==
    CASE n = "handle"    -> 100
      [] n = "exe_name"  -> 50
      [] n = "family"    -> 50
      [] n = "keyword"   -> 25
      [] n = "class"     -> 10
      [] n = "pid"       -> 8
      [] n = "prev_sub"  -> 6
      [] n = "shared_en" -> 4
      [] n = "shared_kr" -> 4
      [] n = "modern"    -> 5

RECURSIVE SumWeights(_)
SumWeights(S) ==
    IF S = {} THEN 0
    ELSE LET n == CHOOSE x \in S : TRUE IN Weight(n) + SumWeights(S \ {n})

\* the conditions that count: every one that holds, a keyword shared by the two
\* titles only when the previous title is no substring of the candidate's
Credited ==
    {n \in TrueConds : n \in {"shared_en", "shared_kr"} => "prev_sub" \notin TrueConds}

(* C23: when scoring raises no fault the score is the sum of the weights of the
   conditions that hold, each checked on its own: 100 handle, 50 executable
   name equal, 50 family executable, 25 keyword in the title, 10 class equal,
   8 pid equal, 5 modern-shell class, and for a previous title 6 if it is a
   substring of the candidate's title, else 4 for each keyword in both titles. *)
C23_ScoreIsSumOfWeights ==
    ~ScoreFaults(Cand(ScoreHandle), sig) =>
        /\ ScoreNow = SumWeights(Credited)
        /\ SumWeights(Credited \cap {"prev_sub", "shared_en", "shared_kr"}) <= 8

\* both keywords are shared by titles of which neither holds the other, next to
\* a handle, a family and a class match
C23_Witness ==
    /\ ~ScoreFaults(Cand(ScoreHandle), sig)
    /\ {"shared_en", "shared_kr", "handle", "family", "modern"} \subseteq Credited
    /\ "prev_sub" \notin TrueConds
    /\ ScoreNow = SumWeights(Credited)

-----------------------------------------------------------------------------
(* Properties of the acceptance threshold. *)

\* the conditions of the score that hold of catalog entry c
CondsOf(c) == {n \in CondNames : Cond(n, c, sig)}

TitleSignals == {"keyword", "prev_sub", "shared_en", "shared_kr"}
ClassSignals == {"class", "modern"}

\* an executable of the family next to one more signal, or a class signal next
\* to a title signal
Corroborated(c) ==
    \/ "family" \in CondsOf(c) /\ CondsOf(c) \ {"family"} # {}
    \/ CondsOf(c) \cap ClassSignals # {} /\ CondsOf(c) \cap TitleSignals # {}

\* the catalog entry of the window the scan returned
Returned == CHOOSE i \in 1..Len(candidates.list) : candidates.list[i].handle = result

(* C24: every window reacquire returns from the scan belongs to an entry with
   corroborated evidence: a family executable with one more signal, or a class
   signal with a title signal; none is returned on title signals alone or on a
   single signal. *)
C24_AcceptanceIsCorroborated ==
    (rpc = "done" /\ candidates.taken /\ result # 0) =>
        /\ Corroborated(candidates.list[Returned])
        /\ ~(CondsOf(candidates.list[Returned]) \subseteq TitleSignals)
        /\ Cardinality(CondsOf(candidates.list[Returned])) > 1

-----------------------------------------------------------------------------
(* Properties of the score of an entry whose executable is not known. *)

\* get_process_image_path gave nothing for the entry's process: no pid, or the
\* process could not be opened or queried
PathUnresolved(c) == c.pid = 0 \/ procImage[c.pid] = ""

PathConds == {"exe_name", "family"}

CreditedOf(c) ==
    {n \in CondsOf(c) : n \in {"shared_en", "shared_kr"} => "prev_sub" \notin CondsOf(c)}

(* C25: an entry whose executable path cannot be resolved gets a score all the
   same: the two conditions on the executable name do not hold of it, the
   weights of its other conditions are in its score, and the scan goes on to
   score every entry after it. *)
C25_UnresolvedPathStillScored ==
    Scanned =>
        /\ nscored = Len(candidates.list)
        /\ \A i \in 1..Len(candidates.list) :
              (PathUnresolved(candidates.list[i]) /\ ~ScoreFaults(candidates.list[i], sig)) =>
                  /\ CondsOf(candidates.list[i]) \cap PathConds = {}
                  /\ ScoreAt(i) = SumWeights(CreditedOf(candidates.list[i]) \ PathConds)
                  /\ ScoreAt(i) >= 0
                  /\ best_score >= ScoreAt(i)
                  /\ \A j \in (i + 1)..Len(candidates.list) : best_score >= ScoreAt(j)

\* the first entry of the snapshot has no executable path and scores on its
\* title; the entry after it has the family executable and is the best
C25_Witness ==
    /\ Scanned /\ Len(candidates.list) = 2
    /\ PathUnresolved(candidates.list[1]) /\ ~ScoreFaults(candidates.list[1], sig)
    /\ ScoreAt(1) >= 25
    /\ "family" \in CondsOf(candidates.list[2])
    /\ best = candidates.list[2].handle /\ best_score = ScoreAt(2)

-----------------------------------------------------------------------------
(* Properties of a correction round. *)

Clamp(x, lo, hi) == IF x < lo THEN lo ELSE IF x > hi THEN hi ELSE x

\* a step that runs a correction round
RoundStep == round' = round + 1

(* C26: a correction round is run only on a measured |offset| above 10; its
   step count is floor(|offset| / 150) clamped to 1..5 and its direction is down
   when offset > 0, up otherwise.  An offset of 60 gives a round of one step
   down, and a re-measured |offset| <= 10 ends the loop without another round
   or scroll. *)
C26_StepAndDirection ==
    /\ [][RoundStep =>
            /\ Abs(offset) > 2 * Tolerance
            /\ lastRound'.repeats = Clamp(Abs(offset) \div (2 * 150), 1, 5)
            /\ lastRound'.direction = (IF offset > 0 THEN "down" ELSE "up")
            /\ (offset = 2 * 60 =>
                    lastRound'.repeats = 1 /\ lastRound'.direction = "down")]_vars
    /\ [][(cpc = "loop" /\ Abs(offset) <= 2 * Tolerance) =>
            /\ cpc' = "done" /\ round' = round
            /\ nPattern' = nPattern /\ nWheel' = nWheel]_vars

\* offset 60: one round of one pattern step down brought the node within 10
C26_Witness ==
    /\ cpc = "done" /\ round = 1 /\ offset0.seen /\ offset0.value = 2 * 60
    /\ lastRound.direction = "down" /\ lastRound.repeats = 1 /\ lastRound.applied = 1
    /\ nPattern = 1 /\ nWheel = 0
    /\ Abs(offset) <= 2 * Tolerance
-----------------------------------------------------------------------------
(* Properties of the wheel fallback of a correction round *)

\* the pattern-based scroll of the round being taken was unavailable or threw
PatternFailed == ~iface_scroll \/ lastRound'.applied < lastRound'.repeats

(* C27: in a correction round the wheel fallback is used exactly when the
   pattern-based scroll was unavailable or threw; the wheel distance is the
   round's step count, negative when offset > 0 and positive when offset < 0;
   and every movement the wheel helper asks for, by a wheel call, a mouse wheel
   or keyboard keys, is of that many steps, down when offset > 0 and up when
   offset < 0. *)
C27_WheelFallback ==
    [][RoundStep =>
         /\ (nWheel' = nWheel + 1) <=> PatternFailed
         /\ (nWheel' = nWheel) <=> ~PatternFailed
         /\ lastRound'.wheel = IF ~PatternFailed THEN 0
                               ELSE IF offset > 0 THEN -step_for(offset)
                               ELSE step_for(offset)
         /\ (~PatternFailed => lastRound'.moves = {})
         /\ \A m \in lastRound'.moves :
               /\ m.amount = step_for(offset)
               /\ m.direction = IF offset > 0 THEN "down" ELSE "up"]_vars

\* a round whose pattern scroll threw part-way and whose wheel calls all failed,
\* so that the keyboard was used as well, two steps down
C27_Witness ==
    /\ round >= 1 /\ iface_scroll
    /\ lastRound.repeats = 2 /\ lastRound.applied = 1 /\ lastRound.wheel = -2
    /\ lastRound.moves = {[via |-> "wheel", direction |-> "down", amount |-> 2],
                          [via |-> "keys", direction |-> "down", amount |-> 2]}
-----------------------------------------------------------------------------
(* Properties of the selection lookup *)

Looked == picked # NotPicked /\ picked.op = "get_selected_tree_item_fast"

\* the tiers entered are the first ones of the fixed order, none is entered after
\* a tier that found the selected item, and no exception leaves the call
TiersInOrder ==
    /\ ~picked.raised
    /\ Len(picked.trail) <= Len(LookupTiers)
    /\ \A k \in 1..Len(picked.trail) : picked.trail[k].tier = LookupTiers[k]
    /\ (pwa_ready /\ picked.ret = 0) => Len(picked.trail) = Len(LookupTiers)
    /\ picked.ret # 0 => picked.trail[Len(picked.trail)].outcome = "found"

(* C28 (as stated): the lookup consults (a) the selection query, (b) the
   selection-pattern accessor, (c) the immediate children, (d) the tree-item
   descendants in that order; a tier is attempted only if the previous tier was
   unavailable or threw; no exception of a tier reaches the caller. *)
C28_TierOnlyAfterUnavailableOrThrew ==
    Looked =>
        /\ TiersInOrder
        /\ \A k \in 2..Len(picked.trail) :
              picked.trail[k - 1].outcome \in {"absent", "threw"}

(* C28 (amended): the same order and the same swallowing of exceptions; a tier is
   attempted only if every previous tier was unavailable, threw, or ran and
   yielded no selected item. *)
C28_TierOnlyAfterNoResult ==
    Looked =>
        /\ TiersInOrder
        /\ \A k \in 2..Len(picked.trail) :
              picked.trail[k - 1].outcome \in {"absent", "threw", "empty"}

\* the query is missing, the accessor raised, no immediate child is selected and
\* the descendant scan found the selected item
C28_Witness ==
    /\ Looked /\ picked.ret = 2
    /\ picked.trail = << [tier |-> "get_selection", outcome |-> "absent"],
                         [tier |-> "iface_selection", outcome |-> "threw"],
                         [tier |-> "children", outcome |-> "empty"],
                         [tier |-> "descendants", outcome |-> "found"] >>
-----------------------------------------------------------------------------
(* Properties of selecting a section by its text *)

SelectCalled == picked # NotPicked /\ picked.op = "select_section_by_text"

\* item i of the pane the call was made on shows the text asked for
ShowsText(i) ==
    /\ picked.before.items[i].text # Unreadable
    /\ _normalize_text(picked.before.items[i].text) = _normalize_text(picked.text)

MatchedItems ==
    IF picked.before.found THEN {i \in Indices(picked.before) : ShowsText(i)} ELSE {}

\* select() worked on item i, or click_input() did after select() raised
Acted(i) ==
    \/ picked.by = "select" /\ picked.before.items[i].act.select = "ok"
    \/ /\ picked.by = "click" /\ picked.before.items[i].act.select = "raises"
       /\ picked.before.items[i].act.click # "raises"

(* C29: the call returns false whenever no tree item or list item shows the
   normalized text asked for, and whenever an item matched but select() and
   click_input() both failed on it; it returns true only if a matched item was
   selected or clicked. *)
C29_FalseOnNoMatchOrFailure ==
    SelectCalled =>
        /\ (MatchedItems = {} => ~picked.ret)
        /\ (picked.failed # {} => ~picked.ret)
        /\ (picked.ret => (picked.node \in MatchedItems /\ Acted(picked.node)))

(* C30: when the call succeeds, _center_element_in_view is invoked on the item
   that was just matched and selected: not on another item and not on None. *)
C30_CentersTheSelectedItem ==
    (SelectCalled /\ picked.ret) =>
        (picked.centered.called /\ picked.centered.element = picked.node)
-----------------------------------------------------------------------------
(* Properties of renaming a buffer *)

\* the step is a rename that went through: the names of the collection changed
RenameDone ==
    /\ last'.op = "RenameBuffer"
    /\ Keys(BuffersOf(settings')) # Keys(BuffersOf(settings))

(* C31: a successful rename keeps the renamed buffer at its position in the
   display order with its contents, leaves the names, the order and the contents
   of every other buffer as they were, and a renamed buffer that was the active
   one is the active one under its new name. *)
C31_RenameKeepsPlaceAndContents ==
    [][RenameDone =>
         LET old == BuffersOf(settings)
             new == BuffersOf(settings')
             row == buffer_list.row
         IN  /\ Len(new) = Len(old)
             /\ row \in 1..Len(old)
             /\ buffer_list.items[row] = old[row].name
             /\ new[row].name # old[row].name
             /\ new[row].data = old[row].data
             /\ \A i \in 1..Len(old) : i # row => new[i] = old[i]
             /\ buffer_list'.items = Keys(new)
             /\ BuffersOf(file') = new
             /\ (active_buffer_name = old[row].name =>
                    /\ active_buffer_name' = new[row].name
                    /\ ActiveOf(settings') = new[row].name
                    /\ ActiveOf(file') = new[row].name)]_vars

\* the first of two buffers, the default one, which holds items and is the
\* active one, now has the name "B1"; the second one was imported
C31_Witness ==
    /\ last.op = "RenameBuffer" /\ last.notice = ""
    /\ Keys(BuffersOf(settings)) = <<"B1", " B1">>
    /\ BuffersOf(settings)[1].data # << >>
    /\ active_buffer_name = "B1" /\ buffer_list.row = 1
-----------------------------------------------------------------------------
(* Properties of moving an item among its siblings *)

\* the children of the item at pp, or the top-level items for << >>
ChildrenAt(items, pp) == IF pp = << >> THEN items ELSE ItemAt(items, pp).children

\* the tree with "kids" as the children at pp and nothing else changed
RECURSIVE WithChildren(_, _, _)
WithChildren(items, pp, kids) ==
    IF pp = << >> THEN kids
    ELSE [items EXCEPT ![pp[1]].children = WithChildren(@, Tail(pp), kids)]

SwapSeq(seq, i, j) ==
    [k \in 1..Len(seq) |-> IF k = i THEN seq[j] ELSE IF k = j THEN seq[i] ELSE seq[k]]

\* the tree with the siblings i and j under pp exchanged
Exchanged(pp, i, j) ==
    WithChildren(fav_tree, pp, SwapSeq(ChildrenAt(fav_tree, pp), i, j))

(* C32: on every tree and for every selected item, move-up exchanges the item
   with the sibling before it and move-down with the sibling after it, inside
   the same parent; at the first (last) position move-up (move-down) changes
   nothing; the item's subtree, the other siblings and the rest of the tree are
   as they were; and move-down of the item after its move-up gives the tree back. *)
C32_MoveSwapsAdjacentSiblings ==
    Ready =>
      \A sel \in PathsOf(fav_tree) :
        LET pp == ParentPath(sel)
            i == LastIndex(sel)
            up == _move_item_up(Cur, sel).g
            down == _move_item_down(Cur, sel).g
        IN  /\ (i = 1 => up = Cur)
            /\ (i > 1 =>
                  /\ up.fav_tree = Exchanged(pp, i - 1, i)
                  /\ ItemAt(up.fav_tree, pp \o <<i - 1>>) = ItemAt(fav_tree, sel)
                  /\ _move_item_down(up, pp \o <<i - 1>>).g.fav_tree = fav_tree)
            /\ (i = ChildCount(fav_tree, pp) => down = Cur)
            /\ (i < ChildCount(fav_tree, pp) =>
                  /\ down.fav_tree = Exchanged(pp, i, i + 1)
                  /\ ItemAt(down.fav_tree, pp \o <<i + 1>>) = ItemAt(fav_tree, sel))

\* a group that holds two items, just after one of them was moved up
C32_Witness ==
    /\ Ready /\ last.op = "MoveItemUp"
    /\ Len(fav_tree) = 1 /\ Len(fav_tree[1].children) = 2
    /\ fav_tree[1].children[1].payload.id > fav_tree[1].children[2].payload.id
-----------------------------------------------------------------------------
(* Properties of the worker threads' completion *)

\* nothing is left that would run by itself: no timer, no thread, no queued signal
Quiet ==
    /\ fpc = "ready" /\ timers = << >>
    /\ reconnect_pc = "none" /\ ~IsRunning(scanner)
    /\ list_ready = 0 /\ list_workers = 0

\* a reconnect worker emits "finished" once, with one payload of a success flag,
\* a status text and, on success, a fingerprint; a scanner emits "done" once
EmitsOnce ==
    [][/\ (reconnect_pc' = "queued" /\ reconnect_pc # "queued") =>
             /\ reconnect_pc = "emit" /\ r_payload' = r_payload
             /\ r_payload.status # ""
             /\ (r_payload.ok <=> r_payload.sig # NoSig)
       /\ (reconnect_pc = "queued" => reconnect_pc' \in {"queued", "none"})
       /\ (list_ready' > list_ready =>
             scanner = "running" /\ scanner' = "emitted" /\ list_ready' = list_ready + 1)
       /\ (scanner = "emitted" => list_ready' <= list_ready)]_vars

\* every started worker comes to its signal, whichever way its body went
WorkersComplete ==
    /\ (reconnect_pc = "start" ~> reconnect_pc = "queued")
    /\ (reconnect_pc = "queued" ~> reconnect_pc = "none")
    /\ (scanner = "running" ~> scanner = "emitted")
    /\ (scanner = "emitted" ~> scanner = "finished")
    /\ (dialog = "scanning" ~> dialog # "scanning")

(* C33: every started worker (reconnect, window scan, window list) signals its
   completion to the UI thread once, with one payload, also when its body
   raises; and after the start-up sequence the window list and the refresh
   button are enabled again: the program never comes to rest with them disabled. *)
C33_WorkersCompleteAndRefreshReenabled ==
    /\ EmitsOnce
    /\ WorkersComplete
    /\ [](Quiet => refresh_button)
-----------------------------------------------------------------------------
(* Properties of the stored fingerprint *)

\* a favorites handler that changed the tree and saved it, or closeEvent with its
\* window-state save and favorites save
SaveStep ==
    /\ fpc = "ready"
    /\ \/ fpc' = "closed"
       \/ fpc' = "ready" /\ fav_tree' # fav_tree

(* C34: the fingerprint in the settings file changes only through a connection
   and a disconnection: a favorites mutation, a buffer operation, a window-state
   save or the save at shutdown leaves it as the last connection (or the last
   disconnection) wrote it. *)
C34_SavesKeepFingerprint ==
    [][SaveStep => SigOf(file') = SigOf(file)]_vars
-----------------------------------------------------------------------------
(* C35: a connection attempt that fails leaves the session's connection as it
   was: the window held and the cached container after the attempt are those
   held before it. *)
C35_FailedAttemptKeepsConnection ==
    (log.attempt.made /\ ~log.attempt.ok) => log.attempt.after = log.attempt.before

(* C36: every container a centering or selection call works on was located in
   the window the session is connected to at the time of the call; in
   particular no call after a switch to another window works on the container
   cached for the window held before. *)
C36_ContainerOfConnectedWindow ==
    log.used # NoUse => \A c \in log.used.containers : c = log.used.window

(* C37: the centering and search controls are enabled only while the session
   holds a window obtained from a successful connection; a favorite activation
   whose connection step fails does not leave them enabled. *)
C37_ControlsOnlyWhenConnected ==
    center_button => (onenote_window # 0 /\ log.held = "connected")

-----------------------------------------------------------------------------
\* the scan has answered with window r although the catalog it scored held a
\* window, other than r, of the executable the fingerprint names
PassedOver(r) ==
    /\ rpc = "done" /\ candidates.taken /\ result = r /\ r # 0
    /\ sig.exe_name # ""
    /\ CandExeName(Cand(r)) # sig.exe_name
    /\ \E i \in 1..Len(candidates.list) : CondExeName(candidates.list[i], sig)

(* C38 as stated: when the fingerprint names an executable and the catalog
   holds a visible window of that executable, the scan does not answer with a
   window of another executable. *)
C38_ExeMatchNeverPassedOver ==
    \A r \in Handles : ~PassedOver(r)

(* C38: when the fingerprint names an executable and the catalog holds a
   visible window of that executable, the scan answers with a window of
   another executable only if that window's executable is of the OneNote
   family or the window has the fingerprint's handle or process id: titles
   and classes alone never outweigh the executable's name. *)
C38_ExeMatchPassedOverOnlyForFamilyHandleOrPid ==
    \A r \in Handles :
        PassedOver(r) =>
            LET c == CHOOSE e \in {candidates.list[i] : i \in 1..Len(candidates.list)} :
                            e.handle = r
            IN  CondFamily(c, sig) \/ CondHandle(c, sig) \/ CondPid(c, sig)

\* the scan preferred a window of the OneNote family to the window of the
\* executable the fingerprint names
C38_Witness ==
    /\ PassedOver(1)
    /\ sig.exe_name = "app.exe" /\ sig.handle = 0 /\ sig.pid = 0
    /\ CandExeName(Cand(1)) = "onenote.exe"

-----------------------------------------------------------------------------
(* C39: importing a favorites document as a new buffer under a name the
   collection already holds is refused or fails, and the buffer of that name
   keeps its contents, as with add-buffer and paste-buffer. *)
C39_ImportKeepsExistingBuffer ==
    Ready =>
        \A imported \in ImportFiles : \A i \in 1..Len(BuffersOf(settings)) :
            LET name == BuffersOf(settings)[i].name
                r == _import_favorites(Cur, "yes", imported, name)
            IN  name # "" =>
                    /\ r.notice # "import_ok"
                    /\ GetData(BuffersOf(r.g.settings), name, << >>)
                         = BuffersOf(settings)[i].data

-----------------------------------------------------------------------------
(* C40: a correction round scrolls the container by one mechanism only, the
   scroll pattern or the wheel fallback, so that what one round asks the
   container to scroll is never more than the round's step count, also when
   the pattern scroll raises after some of its increments were made. *)
C40_OneMechanismPerRound ==
    lastRound # NoRound =>
        /\ ~(lastRound.applied > 0 /\ lastRound.wheel # 0)
        /\ lastRound.applied + Abs(lastRound.wheel) <= lastRound.repeats

====
